---- MODULE Spec2Model ----
(***************************************************************************)
(* Rideshare Profit Tracker (src/main.py): the record store, the request  *)
(* handlers that fill it, and the reconciliation / fuel-economy / tax     *)
(* report computations, as a state machine.                                *)
(*                                                                         *)
(* Representation.                                                         *)
(*  - A Python value that may be None is a sequence of length <= 1:       *)
(*    None is << >>, a present value x is << x >>.                         *)
(*  - Floats are exact integers.  Currency is counted in mills (1/1000    *)
(*    of a dollar) so that the per-mile rates 0.655 and 0.670 of          *)
(*    MILEAGE_RATES are the integers 655 and 670; the self-employment tax *)
(*    keeps the factors 0.9235 and 0.153 as 9235/10^4 and 153/10^3, i.e.  *)
(*    it is an integer number of 10^-7 mills.  A quotient (miles/gallons) *)
(*    is a fraction << n, d >> in lowest terms with d > 0.                 *)
(*  - A date is year * 1000 + day-of-year; a datetime is << date, t >>    *)
(*    with t a time of day in 0 .. TimeMax (0 is time.min, TimeMax is     *)
(*    time.max).                                                           *)
(*  - A table is a function from the primary keys in use to rows.          *)
(***************************************************************************)
EXTENDS Integers, Sequences, FiniteSets, TLC

VARIABLES users, drivers, vehicles, trips, dailies, expenses, fuels,
          nextId, sessions, response, inflight

vars == << users, drivers, vehicles, trips, dailies, expenses, fuels,
           nextId, sessions, response, inflight >>

db == << users, drivers, vehicles, trips, dailies, expenses, fuels, nextId >>

(***************************************************************************)
(* Bounds of the model.                                                    *)
(***************************************************************************)
\* rows of fuel the fuel-economy specification creates
MaxFuels == 3
\* rows (daily logs and trips together) the income specification creates
MaxIncomeRows == 3
\* rows (all four record kinds together) the tax specification creates
MaxTaxRows == 4

\* fuel rows in the dashboard specification
MaxDashFuels == 4

\* the largest id a vehicle is created with in the vehicle specification
MaxVehicleId == 5
\* drivers, users and records (together) the administration specification creates
MaxAdminCreated == 2
\* rows (of all tables together) the access specification creates
MaxAccessCreated == 1
\* records (of the four kinds together) the listing specification creates
MaxPageRows == 2
\* the most setup requests that pass the check of setup_do
MaxSetups == 2
\* the last representable time of day (time.max); 0 is time.min
TimeMax == 2

(***************************************************************************)
(* Python values                                                           *)
(***************************************************************************)
None == << >>

Some(x) == << x >>

\* `x or 0` / `x or 0.0` for a number that may be None
OrZero(o) == IF o = None THEN 0 ELSE o[1]

\* `s or label` for a string that may be None or empty
OrLabelEmpty(o, label) == IF o = None THEN "" ELSE o[1]

OrLabel(o, label) == IF o = None THEN label ELSE IF o[1] = "" THEN label ELSE o[1]

\* `s.strip() or None` / `s or None` for a form string
StrOrNone(s) == IF s = "" THEN None ELSE Some(s)

\* to_int_or_none on a form field that is absent (None) or holds an integer
to_int_or_none(val) == val

\* truthiness of an Optional[int]: None and 0 are false
Truthy(o) == o # None /\ o[1] # 0

Max2(a, b) == IF a >= b THEN a ELSE b

Abs(a) == IF a < 0 THEN 0 - a ELSE a

RECURSIVE Gcd(_, _)
Gcd(a, b) == IF b = 0 THEN a ELSE Gcd(b, a % b)

\* the float n / d (d > 0) as a fraction in lowest terms
Div(n, d) == LET g == Gcd(Abs(n), d) IN << n \div g, d \div g >>

RatAdd(p, q) == Div(p[1] * q[2] + q[1] * p[2], p[2] * q[2])

RatDivInt(p, k) == Div(p[1], p[2] * k)

RECURSIVE SumSeq(_)
SumSeq(s) == IF s = << >> THEN 0 ELSE Head(s) + SumSeq(Tail(s))

RECURSIVE RatSumSeq(_)
RatSumSeq(s) == IF s = << >> THEN << 0, 1 >> ELSE RatAdd(Head(s), RatSumSeq(Tail(s)))

(***************************************************************************)
(* Dates                                                                   *)
(***************************************************************************)
Date(y, d) == y * 1000 + d

YearOf(d) == d \div 1000

FirstDay(y) == Date(y, 1)

LastDay(y) == Date(y, 365)

\* datetime.combine(d, t)
Combine(d, t) == << d, t >>

\* datetime.date()
DateOf(dt) == dt[1]

DtLE(a, b) == a[1] < b[1] \/ (a[1] = b[1] /\ a[2] <= b[2])

DtLT(a, b) == a[1] < b[1] \/ (a[1] = b[1] /\ a[2] < b[2])

\* date.today() and datetime.now(): the clock of the run
Today == Date(2024, 200)

Now == Combine(Today, 1)

\* parse_date_from_form: the form holds a parseable datetime, or nothing usable
parse_date_from_form(date_str, fallback_dt) ==
    IF date_str # None THEN date_str[1]
    ELSE IF fallback_dt # None THEN fallback_dt[1] ELSE Now

\* parse_day_from_form
parse_day_from_form(date_str, fallback) ==
    DateOf(parse_date_from_form(date_str,
               Some(Combine(IF fallback # None THEN fallback[1] ELSE Today, 0))))

(***************************************************************************)
(* Tables                                                                  *)
(***************************************************************************)
Ids(t) == DOMAIN t

Insert(t, id, row) == [i \in DOMAIN t \cup {id} |-> IF i = id THEN row ELSE t[i]]

Delete(t, id) == [i \in DOMAIN t \ {id} |-> t[i]]

\* db.get(Model, id)
Get(t, id) == IF id \in DOMAIN t THEN Some(t[id]) ELSE None

MinOf(S) == CHOOSE x \in S : \A y \in S : x <= y

\* the ids of S in ascending order
RECURSIVE AscIds(_)
AscIds(S) == IF S = {} THEN << >> ELSE LET m == MinOf(S) IN << m >> \o AscIds(S \ {m})

\* sum(f[x] for x in S)
RECURSIVE SumOver(_, _)
SumOver(S, f) ==
    IF S = {} THEN 0
    ELSE LET m == CHOOSE x \in S : TRUE IN f[m] + SumOver(S \ {m}, f)

(***************************************************************************)
(* Sessions and users                                                      *)
(***************************************************************************)
Clients == {"a", "b"}

\* get_current_user
get_current_user(c) ==
    IF Truthy(sessions[c]) THEN Get(users, sessions[c][1]) ELSE None

\* require_login: the user, or None for the redirect to /login
require_login(c) == get_current_user(c)

Redirect(url) == [kind |-> "redirect", url |-> url]

\* bcrypt_hash: the hash of a password (the salt is left out: no handler
\* compares two hashes, they are only verified)
bcrypt_hash(plain) == << "bcrypt", plain >>

\* bcrypt_verify
bcrypt_verify(plain, hashed) == hashed = bcrypt_hash(plain)

\* _user_can_access_driver
user_can_access_driver(user, driver_id) ==
    user.is_admin \/ user.driver_id = Some(driver_id)

\* order_by(Driver.name.asc()): a name is modelled by its position in the
\* collation order, ties broken by id
RECURSIVE DriversByName(_)
DriversByName(S) ==
    IF S = {} THEN << >>
    ELSE LET m == CHOOSE x \in S : \A y \in S :
                      \/ drivers[x].name < drivers[y].name
                      \/ (drivers[x].name = drivers[y].name /\ x <= y)
         IN  << m >> \o DriversByName(S \ {m})

\* _drivers_for_user: the list of driver ids (None where db.get finds nothing)
drivers_for_user(user) ==
    IF user.is_admin THEN [i \in 1..Cardinality(DOMAIN drivers) |->
                              Some(DriversByName(DOMAIN drivers)[i])]
    ELSE IF Truthy(user.driver_id)
         THEN << IF user.driver_id[1] \in DOMAIN drivers THEN user.driver_id ELSE None >>
         ELSE << >>

\* drivers_default_vehicle: first vehicle by (is_default desc, id asc)
drivers_default_vehicle(driver_id) ==
    LET own == {v \in DOMAIN vehicles : vehicles[v].driver_id = driver_id}
        dfl == {v \in own : vehicles[v].is_default}
    IN  IF own = {} THEN None
        ELSE IF dfl # {} THEN Some(MinOf(dfl)) ELSE Some(MinOf(own))

(***************************************************************************)
(* Fuel economy                                                            *)
(***************************************************************************)
\* the fuel rows of a vehicle, order_by(Fuel.date.asc(), Fuel.id.asc())
RECURSIVE FuelsInOrder(_)
FuelsInOrder(S) ==
    IF S = {} THEN << >>
    ELSE LET m == CHOOSE x \in S : \A y \in S :
                      \/ DtLT(fuels[x].date, fuels[y].date)
                      \/ (fuels[x].date = fuels[y].date /\ x <= y)
         IN  << m >> \o FuelsInOrder(S \ {m})

FuelsOfVehicle(vehicle_id) ==
    FuelsInOrder({f \in DOMAIN fuels : fuels[f].vehicle_id = Some(vehicle_id)})

RECURSIVE MpgLoopSkipUnmeasured(_, _, _, _, _)
MpgLoopSkipUnmeasured(fs, i, total_miles, total_gallons, series) ==
    IF i > Len(fs)
    THEN [total_miles |-> total_miles, total_gallons |-> total_gallons, series |-> series]
    ELSE LET f       == fuels[fs[i]]
             prev    == fuels[fs[i - 1]]
             miles   == Max2(0, OrZero(f.odometer) - OrZero(prev.odometer))
             gallons == OrZero(f.gallons)
             mpg     == IF gallons > 0 THEN Some(Div(miles, gallons)) ELSE None
         IN  MpgLoopSkipUnmeasured(fs, i + 1,
                     IF gallons > 0 THEN total_miles + miles ELSE total_miles,
                     IF gallons > 0 THEN total_gallons + gallons ELSE total_gallons,
                     Append(series, [date |-> f.date, mpg |-> mpg,
                                     miles |-> Some(miles), gallons |-> Some(gallons)]))

\* the loop `for f in fuels[1:]` of rolling_mpg_for_vehicle, from position i on
RECURSIVE MpgLoop(_, _, _, _, _)
MpgLoop(fs, i, total_miles, total_gallons, series) ==
    IF i > Len(fs)
    THEN [total_miles |-> total_miles, total_gallons |-> total_gallons, series |-> series]
    ELSE LET f       == fuels[fs[i]]
             prev    == fuels[fs[i - 1]]
             miles   == Max2(0, OrZero(f.odometer) - OrZero(prev.odometer))
             gallons == OrZero(f.gallons)
             mpg     == IF gallons > 0 THEN Some(Div(miles, gallons)) ELSE None
         IN  MpgLoop(fs, i + 1, total_miles + miles, total_gallons + gallons,
                     Append(series, [date |-> f.date, mpg |-> mpg,
                                     miles |-> Some(miles), gallons |-> Some(gallons)]))

MpgWeightedAvgMean(acc) ==
    LET pts == SelectSeq(acc.series, LAMBDA e : e.mpg # None)
    IN  IF Len(pts) > 0
        THEN Some(RatDivInt(RatSumSeq([i \in 1..Len(pts) |-> pts[i].mpg[1]]), Len(pts)))
        ELSE None

MpgWeightedAvgNonzero(acc) ==
    IF acc.total_gallons # 0 THEN Some(<< acc.total_miles, acc.total_gallons >>) ELSE None

\* weighted_avg = (total_miles / total_gallons) if total_gallons > 0 else None
MpgWeightedAvg(acc) ==
    IF acc.total_gallons > 0 THEN Some(Div(acc.total_miles, acc.total_gallons)) ELSE None

MpgFewSeriesEmpty(fs) == << >>

\* the series returned for fewer than two fills
MpgFewSeries(fs) ==
    IF Len(fs) > 0
    THEN << [date |-> fuels[fs[1]].date, mpg |-> None, miles |-> None,
             gallons |-> fuels[fs[1]].gallons] >>
    ELSE << >>

\* rolling_mpg_for_vehicle: (weighted_avg, series)
rolling_mpg_for_vehicle(vehicle_id) ==
    LET fs == FuelsOfVehicle(vehicle_id)
    IN  IF Len(fs) < 2
        THEN [weighted_avg |-> None, series |-> MpgFewSeries(fs)]
        ELSE LET acc == MpgLoop(fs, 2, 0, 0, << >>)
             IN  [weighted_avg |-> MpgWeightedAvg(acc), series |-> acc.series]

(***************************************************************************)
(* The state the focused specifications start from: first-time setup and  *)
(* the admin's driver, user and vehicle pages have created two drivers,   *)
(* an admin bound to driver 1, a plain user bound to driver 2 and three    *)
(* vehicles; both are logged in, and no record has been entered yet.       *)
(***************************************************************************)
EmptyTable == [i \in {} |-> None]

InitPopulated ==
    /\ drivers  = (1 :> [name |-> 2]) @@ (2 :> [name |-> 1])
    /\ users    = (1 :> [username |-> "admin", password_hash |-> bcrypt_hash("pa"), driver_id |-> Some(1),
                         is_admin |-> TRUE])
               @@ (2 :> [username |-> "bob", password_hash |-> bcrypt_hash("pb"), driver_id |-> Some(2),
                         is_admin |-> FALSE])
    /\ vehicles = (1 :> [driver_id |-> 1, is_default |-> FALSE])
               @@ (2 :> [driver_id |-> 1, is_default |-> TRUE])
               @@ (3 :> [driver_id |-> 2, is_default |-> FALSE])
    /\ trips    = EmptyTable
    /\ dailies  = EmptyTable
    /\ expenses = EmptyTable
    /\ fuels    = EmptyTable
    /\ nextId   = [users |-> 3, drivers |-> 3, vehicles |-> 4, trips |-> 1,
                   dailies |-> 1, expenses |-> 1, fuels |-> 1]
    /\ sessions = [c \in Clients |-> IF c = "a" THEN Some(1) ELSE Some(2)]
    /\ response = Redirect("/")
    /\ inflight = [c \in Clients |-> None]

(***************************************************************************)
(* The store is MySQL (config.py): a row whose driver_id or vehicle_id     *)
(* names no row of the referenced table is refused at commit with an       *)
(* IntegrityError; the transaction is rolled back when get_db closes the   *)
(* session and the request ends with status 500.                           *)
(***************************************************************************)
FkDriver(driver_id) == driver_id \in DOMAIN drivers

FkVehicle(vehicle_id) == vehicle_id = None \/ vehicle_id[1] \in DOMAIN vehicles

IntegrityError ==
    /\ response' = [kind |-> "error", status |-> 500]
    /\ UNCHANGED << db, sessions, inflight >>

(***************************************************************************)
(* A read (a report, the dashboard, an MPG query) leaves the store         *)
(* unchanged, so every state of the store is reached by the writes alone.  *)
(* The specifications below take a read as the step that ends a behaviour: *)
(* each request is taken in a state whose response is that of a write.     *)
(* Every pair (store, response to a read of that store) is still reached.  *)
(***************************************************************************)
AfterWrite == response.kind \in {"redirect", "return"}

(***************************************************************************)
(* Fuel handlers                                                           *)
(***************************************************************************)
\* POST /fuel/ui
fuel_ui_create(c, form) ==
    LET user == require_login(c)
    IN  IF user = None
        THEN /\ response' = Redirect("/login")
             /\ UNCHANGED << db, sessions, inflight >>
        ELSE LET did == IF ~user[1].is_admin THEN user[1].driver_id
                        ELSE to_int_or_none(form.driver_id)
             IN  IF ~Truthy(did)
                 THEN /\ response' = Redirect("/fuel/ui")
                      /\ UNCHANGED << db, sessions, inflight >>
                 ELSE LET vid == IF Truthy(to_int_or_none(form.vehicle_id))
                                 THEN to_int_or_none(form.vehicle_id)
                                 ELSE drivers_default_vehicle(did[1])
                          dt  == parse_date_from_form(form.date, None)
                          f   == [driver_id |-> did[1], vehicle_id |-> vid, date |-> dt,
                                  odometer |-> Some(form.odometer),
                                  gallons |-> Some(form.gallons),
                                  total_paid |-> Some(form.total_paid)]
                      IN  IF ~(FkDriver(did[1]) /\ FkVehicle(vid))
                          THEN IntegrityError
                          ELSE /\ fuels' = Insert(fuels, nextId.fuels, f)
                               /\ nextId' = [nextId EXCEPT !.fuels = @ + 1]
                               /\ response' = Redirect("/fuel/ui")
                               /\ UNCHANGED << users, drivers, vehicles, trips, dailies,
                                               expenses, sessions, inflight >>

RollingMpgCallStoring(vehicle_id) ==
    /\ response' = [kind |-> "mpg", vehicle_id |-> vehicle_id,
                    weighted_avg |-> rolling_mpg_for_vehicle(vehicle_id).weighted_avg,
                    series |-> rolling_mpg_for_vehicle(vehicle_id).series]
    /\ fuels' = [f \in DOMAIN fuels |->
                    IF fuels[f].vehicle_id = Some(vehicle_id)
                    THEN [fuels[f] EXCEPT !.odometer = Some(0)] ELSE fuels[f]]
    /\ UNCHANGED << users, drivers, vehicles, trips, dailies, expenses, nextId, sessions, inflight >>

\* a call of rolling_mpg_for_vehicle, its return value kept as the response
RollingMpgCall(vehicle_id) ==
    /\ response' = [kind |-> "mpg", vehicle_id |-> vehicle_id,
                    weighted_avg |-> rolling_mpg_for_vehicle(vehicle_id).weighted_avg,
                    series |-> rolling_mpg_for_vehicle(vehicle_id).series]
    /\ UNCHANGED << db, sessions, inflight >>

(***************************************************************************)
(* The fuel-economy specification: fill-ups are entered, and the rolling  *)
(* MPG of a vehicle is computed.                                           *)
(***************************************************************************)
D1 == Date(2023, 365)

D2 == Date(2024, 1)

D3 == Date(2024, 2)

D4 == Date(2030, 1)

FuelForm(v, dt, odo, gal) ==
    [driver_id |-> Some(1), vehicle_id |-> v, date |-> dt, odometer |-> odo,
     gallons |-> gal, total_paid |-> 30]

MpgFuelForms ==
    { FuelForm(Some(2), Some(Combine(D1, 0)), 10, 0),
      FuelForm(Some(2), Some(Combine(D1, 0)), 10, 2),
      FuelForm(Some(2), Some(Combine(D2, 0)), 20, 2),
      FuelForm(None,    Some(Combine(D2, TimeMax)), 5, 1),
      FuelForm(Some(2), Some(Combine(D3, 0)), 40, 1),
      FuelForm(Some(2), Some(Combine(D3, 0)), 40, 0),
      FuelForm(Some(2), None, 20, 0 - 1),
      FuelForm(Some(1), Some(Combine(D2, 0)), 90, 3) }

MpgVehicleIds == {1, 2, 3, 9}

NextMpg ==
    \/ \E c \in Clients, form \in MpgFuelForms :
           /\ AfterWrite
           /\ Cardinality(DOMAIN fuels) < MaxFuels
           /\ fuel_ui_create(c, form)
    \/ \E v \in MpgVehicleIds :
           /\ AfterWrite
           /\ RollingMpgCall(v)

SpecMpg == InitPopulated /\ [][NextMpg]_vars

(***************************************************************************)
(* Daily log, trip and expense handlers                                    *)
(***************************************************************************)
\* POST /daily/ui
daily_create(c, form) ==
    LET user == require_login(c)
    IN  IF user = None
        THEN /\ response' = Redirect("/login")
             /\ UNCHANGED << db, sessions, inflight >>
        ELSE LET did == IF ~user[1].is_admin THEN user[1].driver_id
                        ELSE to_int_or_none(form.driver_id)
             IN  IF ~Truthy(did)
                 THEN /\ response' = Redirect("/daily/ui")
                      /\ UNCHANGED << db, sessions, inflight >>
                 ELSE LET minutes == OrZero(form.hours) * 60 + OrZero(form.mins)
                          dlog == [driver_id |-> did[1],
                                   date |-> parse_day_from_form(form.date_str, None),
                                   odo_start |-> Some(form.odo_start),
                                   odo_end |-> Some(form.odo_end),
                                   minutes_driven |-> Some(minutes),
                                   total_earned |-> Some(form.total_earned),
                                   platform |-> StrOrNone(form.platform),
                                   trips_count |-> form.trips_count]
                      IN  IF ~(FkDriver(did[1]))
                          THEN IntegrityError
                          ELSE /\ dailies' = Insert(dailies, nextId.dailies, dlog)
                               /\ nextId' = [nextId EXCEPT !.dailies = @ + 1]
                               /\ response' = Redirect("/daily/ui")
                               /\ UNCHANGED << users, drivers, vehicles, trips, expenses,
                                               fuels, sessions, inflight >>

\* POST /trips/ui
trips_ui_create(c, form) ==
    LET user == require_login(c)
    IN  IF user = None
        THEN /\ response' = Redirect("/login")
             /\ UNCHANGED << db, sessions, inflight >>
        ELSE LET did == IF ~user[1].is_admin THEN user[1].driver_id
                        ELSE to_int_or_none(form.driver_id)
             IN  IF ~Truthy(did)
                 THEN /\ response' = Redirect("/trips/ui")
                      /\ UNCHANGED << db, sessions, inflight >>
                 ELSE LET vid == IF Truthy(to_int_or_none(form.vehicle_id))
                                 THEN to_int_or_none(form.vehicle_id)
                                 ELSE drivers_default_vehicle(did[1])
                          dt   == parse_date_from_form(form.date, None)
                          trip == [driver_id |-> did[1], vehicle_id |-> vid, date |-> dt,
                                   platform |-> StrOrNone(form.platform),
                                   fare |-> Some(form.fare), tip |-> Some(form.tip),
                                   bonus |-> Some(form.bonus), miles |-> Some(form.miles),
                                   duration_minutes |-> Some(OrZero(form.mins))]
                      IN  IF ~(FkDriver(did[1]) /\ FkVehicle(vid))
                          THEN IntegrityError
                          ELSE /\ trips' = Insert(trips, nextId.trips, trip)
                               /\ nextId' = [nextId EXCEPT !.trips = @ + 1]
                               /\ response' = Redirect("/trips/ui")
                               /\ UNCHANGED << users, drivers, vehicles, dailies, expenses,
                                               fuels, sessions, inflight >>

\* crud.update_trip: setattr(obj, k, v) for every item of data
update_trip(trip_id, data) ==
    IF trip_id \notin DOMAIN trips
    THEN /\ response' = [kind |-> "return", value |-> None]
         /\ UNCHANGED << db, sessions, inflight >>
    ELSE /\ trips' = [trips EXCEPT ![trip_id] =
                         [k \in DOMAIN @ |-> IF k \in DOMAIN data THEN data[k] ELSE @[k]]]
         /\ response' = [kind |-> "return", value |-> Some(trip_id)]
         /\ UNCHANGED << users, drivers, vehicles, dailies, expenses, fuels, nextId,
                         sessions, inflight >>

\* POST /expenses/ui
expenses_ui_create(c, form) ==
    LET user == require_login(c)
    IN  IF user = None
        THEN /\ response' = Redirect("/login")
             /\ UNCHANGED << db, sessions, inflight >>
        ELSE LET did == IF ~user[1].is_admin THEN user[1].driver_id
                        ELSE to_int_or_none(form.driver_id)
             IN  IF ~Truthy(did)
                 THEN /\ response' = Redirect("/expenses/ui")
                      /\ UNCHANGED << db, sessions, inflight >>
                 ELSE LET dt  == parse_date_from_form(form.date, None)
                          exp == [driver_id |-> did[1], date |-> dt,
                                  category |-> Some(form.category),
                                  amount |-> Some(form.amount)]
                      IN  IF ~(FkDriver(did[1]))
                          THEN IntegrityError
                          ELSE /\ expenses' = Insert(expenses, nextId.expenses, exp)
                               /\ nextId' = [nextId EXCEPT !.expenses = @ + 1]
                               /\ response' = Redirect("/expenses/ui")
                               /\ UNCHANGED << users, drivers, vehicles, trips, dailies,
                                               fuels, sessions, inflight >>

(***************************************************************************)
(* Reports                                                                 *)
(***************************************************************************)
\* MILEAGE_RATES, in mills per mile
MILEAGE_RATES == (2023 :> 655) @@ (2024 :> 670) @@ (2025 :> 670)

\* the factors 0.9235 (in 1/10000) and 0.153 (in 1/1000) of the SE tax estimate
SE_BASE == 9235

SE_RATE == 153

MaxOfSet(S) == CHOOSE x \in S : \A y \in S : y <= x

MileageRateZero(y) == IF y \in DOMAIN MILEAGE_RATES THEN MILEAGE_RATES[y] ELSE 0

\* MILEAGE_RATES.get(y, max(MILEAGE_RATES.values()))
MileageRate(y) ==
    IF y \in DOMAIN MILEAGE_RATES THEN MILEAGE_RATES[y]
    ELSE MaxOfSet({MILEAGE_RATES[k] : k \in DOMAIN MILEAGE_RATES})

\* max(0.0, (dl.odo_end or 0) - (dl.odo_start or 0))
DailyMilesSigned(dl) == OrZero(dl.odo_end) - OrZero(dl.odo_start)

DailyMiles(dl) == Max2(0, OrZero(dl.odo_end) - OrZero(dl.odo_start))

TripIncomeNoBonus(t) == OrZero(t.fare) + OrZero(t.tip)

\* (t.fare or 0.0) + (t.tip or 0.0) + (t.bonus or 0.0)
TripIncome(t) == OrZero(t.fare) + OrZero(t.tip) + OrZero(t.bonus)

TripsIncludedAll(ts, daily_dates) == ts

TripsIncludedSamePlatform(ts, daily_dates) ==
    {t \in ts : ~\E d \in DOMAIN dailies :
                    /\ dailies[d].driver_id = trips[t].driver_id
                    /\ dailies[d].date = DateOf(trips[t].date)
                    /\ dailies[d].platform = trips[t].platform}

\* [t for t in trips if t.date.date() not in daily_dates]
TripsIncluded(ts, daily_dates) == {t \in ts : DateOf(trips[t].date) \notin daily_dates}

\* _sum_miles_by_year
sum_miles_by_year(daily_logs, trips_included) ==
    LET years == {YearOf(dailies[d].date) : d \in daily_logs}
                 \cup {YearOf(DateOf(trips[t].date)) : t \in trips_included}
    IN  [y \in years |->
            LET dl == {d \in daily_logs : YearOf(dailies[d].date) = y}
                tr == {t \in trips_included : YearOf(DateOf(trips[t].date)) = y}
            IN  SumOver(dl, [d \in dl |-> DailyMiles(dailies[d])])
                + SumOver(tr, [t \in tr |-> OrZero(trips[t].miles)])]

std_mileage_deduction_one_rate(miles_by_year) ==
    SumOver(DOMAIN miles_by_year, miles_by_year)
        * MaxOfSet({MILEAGE_RATES[k] : k \in DOMAIN MILEAGE_RATES})

\* _std_mileage_deduction
std_mileage_deduction(miles_by_year) ==
    SumOver(DOMAIN miles_by_year,
            [y \in DOMAIN miles_by_year |-> miles_by_year[y] * MileageRate(y)])

\* the rows the report's queries return
ReportDaily(driver_id, start_d, end_d) ==
    {d \in DOMAIN dailies : /\ dailies[d].driver_id = driver_id
                            /\ dailies[d].date >= start_d
                            /\ dailies[d].date <= end_d}

ReportTripsEndAtMidnight(driver_id, start_d, end_d) ==
    {t \in DOMAIN trips : /\ trips[t].driver_id = driver_id
                          /\ DtLE(Combine(start_d, 0), trips[t].date)
                          /\ DtLE(trips[t].date, Combine(end_d, 0))}

ReportTrips(driver_id, start_d, end_d) ==
    {t \in DOMAIN trips : /\ trips[t].driver_id = driver_id
                          /\ DtLE(Combine(start_d, 0), trips[t].date)
                          /\ DtLE(trips[t].date, Combine(end_d, TimeMax))}

ReportExpenses(driver_id, start_d, end_d) ==
    {e \in DOMAIN expenses : /\ expenses[e].driver_id = driver_id
                             /\ DtLE(Combine(start_d, 0), expenses[e].date)
                             /\ DtLE(expenses[e].date, Combine(end_d, TimeMax))}

ReportFuels(driver_id, start_d, end_d) ==
    {f \in DOMAIN fuels : /\ fuels[f].driver_id = driver_id
                          /\ DtLE(Combine(start_d, 0), fuels[f].date)
                          /\ DtLE(fuels[f].date, Combine(end_d, TimeMax))}

ReportTripsIncluded(driver_id, start_d, end_d) ==
    TripsIncluded(ReportTrips(driver_id, start_d, end_d),
                  {dailies[d].date : d \in ReportDaily(driver_id, start_d, end_d)})

vehicle_cats_no_tires == {"Oil Change", "Maintenance", "Repairs", "Car Wash"}

vehicle_cats == {"Oil Change", "Tires", "Maintenance", "Repairs", "Car Wash"}

IsNonVehicleCatNoFuelRule(cat) == cat \notin vehicle_cats

\* cat not in vehicle_cats and cat not in {"Fuel", "Gas"}
IsNonVehicleCat(cat) == cat \notin vehicle_cats /\ cat \notin {"Fuel", "Gas"}

SeTaxUnfloored(net) == (net * SE_BASE) * SE_RATE

\* max(0.0, net * 0.9235) * 0.153, in units of 10^-7
SeTax(net) == Max2(0, net * SE_BASE) * SE_RATE

TotalDeductActualNoFuel(vehicle_op_total, fuel_paid_total, non_vehicle_exp_total) ==
    vehicle_op_total + non_vehicle_exp_total

\* total_deduct_actual = (vehicle_op_total + fuel_paid_total) + non_vehicle_exp_total
TotalDeductActual(vehicle_op_total, fuel_paid_total, non_vehicle_exp_total) ==
    (vehicle_op_total + fuel_paid_total) + non_vehicle_exp_total

\* the computation of reports_ui from the parsed range on: the `result` namespace
ReportResult(driver_id, start_d, end_d) ==
    LET daily  == ReportDaily(driver_id, start_d, end_d)
        daily_dates   == {dailies[d].date : d \in daily}
        daily_income  == SumOver(daily, [d \in daily |-> OrZero(dailies[d].total_earned)])
        daily_minutes == SumOver(daily, [d \in daily |-> OrZero(dailies[d].minutes_driven)])
        daily_miles   == SumOver(daily, [d \in daily |-> DailyMiles(dailies[d])])
        trs    == ReportTrips(driver_id, start_d, end_d)
        trips_included == TripsIncluded(trs, daily_dates)
        trip_income  == SumOver(trips_included,
                                [t \in trips_included |-> TripIncome(trips[t])])
        trip_minutes == SumOver(trips_included,
                                [t \in trips_included |-> OrZero(trips[t].duration_minutes)])
        trip_miles   == SumOver(trips_included,
                                [t \in trips_included |-> OrZero(trips[t].miles)])
        labels == {OrLabel(dailies[d].platform, "(unspecified)") : d \in daily}
                  \cup {OrLabel(trips[t].platform, "(unspecified)") : t \in trips_included}
        platform_income ==
            [l \in labels |->
                LET dl == {d \in daily : OrLabel(dailies[d].platform, "(unspecified)") = l}
                    tr == {t \in trips_included :
                               OrLabel(trips[t].platform, "(unspecified)") = l}
                IN  SumOver(dl, [d \in dl |-> OrZero(dailies[d].total_earned)])
                    + SumOver(tr, [t \in tr |-> TripIncome(trips[t])])]
        exps   == ReportExpenses(driver_id, start_d, end_d)
        cats   == {OrLabel(expenses[e].category, "(uncategorized)") : e \in exps}
        expenses_by_cat ==
            [cat \in cats |->
                LET ec == {e \in exps :
                               OrLabel(expenses[e].category, "(uncategorized)") = cat}
                IN  SumOver(ec, [e \in ec |-> OrZero(expenses[e].amount)])]
        fls    == ReportFuels(driver_id, start_d, end_d)
        fuel_paid_total == SumOver(fls, [f \in fls |-> OrZero(fuels[f].total_paid)])
        vcats  == {cat \in cats : cat \in vehicle_cats}
        ncats  == {cat \in cats : IsNonVehicleCat(cat)}
        vehicle_op_total      == SumOver(vcats, [cat \in vcats |-> expenses_by_cat[cat]])
        non_vehicle_exp_total == SumOver(ncats, [cat \in ncats |-> expenses_by_cat[cat]])
        business_miles == daily_miles + trip_miles
        total_minutes  == daily_minutes + trip_minutes
        miles_by_year  == sum_miles_by_year(daily, trips_included)
        std_deduction  == std_mileage_deduction(miles_by_year)
        actual_vehicle_expenses == vehicle_op_total + fuel_paid_total
        gross == daily_income + trip_income
        total_deduct_standard == std_deduction + non_vehicle_exp_total
        net_standard == gross - total_deduct_standard
        total_deduct_actual ==
            TotalDeductActual(vehicle_op_total, fuel_paid_total, non_vehicle_exp_total)
        net_actual == gross - total_deduct_actual
    IN  [gross |-> gross,
         business_miles |-> business_miles,
         minutes |-> total_minutes,
         platform_income |-> platform_income,
         expenses_by_cat |-> expenses_by_cat,
         fuel_paid_total |-> fuel_paid_total,
         vehicle_op_total |-> vehicle_op_total,
         non_vehicle_exp_total |-> non_vehicle_exp_total,
         std_mileage_deduction |-> std_deduction,
         total_deduct_standard |-> total_deduct_standard,
         net_standard |-> net_standard,
         se_tax_standard |-> SeTax(net_standard),
         actual_vehicle_expenses |-> actual_vehicle_expenses,
         total_deduct_actual |-> total_deduct_actual,
         net_actual |-> net_actual,
         se_tax_actual |-> SeTax(net_actual)]

\* GET /reports/ui
reports_ui(c, driver_id, start, end) ==
    LET user == require_login(c)
    IN  /\ UNCHANGED << db, sessions, inflight >>
        /\ IF user = None
           THEN response' = Redirect("/login")
           ELSE LET drvs == drivers_for_user(user[1])
                IN  IF drvs = << >>
                    THEN response' = [kind |-> "message", title |-> "No drivers"]
                    ELSE IF driver_id = None /\ drvs[1] = None
                    THEN response' = [kind |-> "error", status |-> 500]
                    ELSE LET did == IF driver_id = None THEN drvs[1][1] ELSE driver_id[1]
                             start_d == parse_day_from_form(start,
                                            Some(FirstDay(YearOf(Today))))
                             end_d   == parse_day_from_form(end,
                                            Some(LastDay(YearOf(Today))))
                         IN  response' = [kind |-> "report",
                                          user |-> sessions[c][1],
                                          drivers |-> drvs,
                                          start |-> start_d,
                                          end |-> end_d,
                                          result |-> ReportResult(did, start_d, end_d),
                                          driver_id |-> did]

(***************************************************************************)
(* Dashboard                                                               *)
(***************************************************************************)
DashboardDriverAnyDriversLog(did) ==
    LET dl  == {d \in DOMAIN dailies : dailies[d].driver_id = did}
        daily_dates == {dailies[d].date : d \in DOMAIN dailies}
        trs == {t \in DOMAIN trips : trips[t].driver_id = did}
        trips_included == TripsIncluded(trs, daily_dates)
        exps == {e \in DOMAIN expenses : expenses[e].driver_id = did}
        fls  == {f \in DOMAIN fuels : fuels[f].driver_id = did}
    IN  [gross |-> SumOver(dl, [d \in dl |-> OrZero(dailies[d].total_earned)])
                   + SumOver(trips_included,
                             [t \in trips_included |-> TripIncome(trips[t])]),
         miles |-> SumOver(dl, [d \in dl |-> DailyMiles(dailies[d])])
                   + SumOver(trips_included,
                             [t \in trips_included |-> OrZero(trips[t].miles)]),
         expenses |-> SumOver(exps, [e \in exps |-> OrZero(expenses[e].amount)]),
         fuel |-> SumOver(fls, [f \in fls |-> OrZero(fuels[f].total_paid)])]

\* the body of `for did in driver_ids`: what one driver adds to the totals
DashboardDriver(did) ==
    LET dl  == {d \in DOMAIN dailies : dailies[d].driver_id = did}
        daily_dates == {dailies[d].date : d \in dl}
        trs == {t \in DOMAIN trips : trips[t].driver_id = did}
        trips_included == TripsIncluded(trs, daily_dates)
        exps == {e \in DOMAIN expenses : expenses[e].driver_id = did}
        fls  == {f \in DOMAIN fuels : fuels[f].driver_id = did}
    IN  [gross |-> SumOver(dl, [d \in dl |-> OrZero(dailies[d].total_earned)])
                   + SumOver(trips_included,
                             [t \in trips_included |-> TripIncome(trips[t])]),
         miles |-> SumOver(dl, [d \in dl |-> DailyMiles(dailies[d])])
                   + SumOver(trips_included,
                             [t \in trips_included |-> OrZero(trips[t].miles)]),
         expenses |-> SumOver(exps, [e \in exps |-> OrZero(expenses[e].amount)]),
         fuel |-> SumOver(fls, [f \in fls |-> OrZero(fuels[f].total_paid)])]

\* mpg_samples: the weighted averages of the drivers' vehicles that have one
MpgSamples(driver_ids) ==
    LET vs == {v \in DOMAIN vehicles :
                   /\ vehicles[v].driver_id \in driver_ids
                   /\ rolling_mpg_for_vehicle(v).weighted_avg # None}
        order == AscIds(vs)
    IN  [i \in 1..Len(order) |-> rolling_mpg_for_vehicle(order[i]).weighted_avg[1]]

\* GET /
dashboard(c) ==
    LET user == get_current_user(c)
    IN  /\ UNCHANGED << db, sessions, inflight >>
        /\ IF user = None
           THEN response' = Redirect("/login")
           ELSE LET driver_ids == IF user[1].is_admin THEN DOMAIN drivers
                                  ELSE IF Truthy(user[1].driver_id)
                                       THEN {user[1].driver_id[1]} ELSE {}
                    per == [did \in driver_ids |-> DashboardDriver(did)]
                    gross == SumOver(driver_ids, [did \in driver_ids |-> per[did].gross])
                    expenses_total ==
                        SumOver(driver_ids, [did \in driver_ids |-> per[did].expenses])
                    fuel_total ==
                        SumOver(driver_ids, [did \in driver_ids |-> per[did].fuel])
                    miles_total ==
                        SumOver(driver_ids, [did \in driver_ids |-> per[did].miles])
                    mpg_samples == MpgSamples(driver_ids)
                IN  response' = [kind |-> "dashboard",
                                 user |-> sessions[c][1],
                                 gross |-> gross,
                                 expenses |-> expenses_total,
                                 fuel |-> fuel_total,
                                 net |-> gross - (expenses_total + fuel_total),
                                 miles |-> miles_total,
                                 avg_mpg |-> IF Len(mpg_samples) > 0
                                             THEN Some(RatDivInt(RatSumSeq(mpg_samples),
                                                                 Len(mpg_samples)))
                                             ELSE None]

(***************************************************************************)
(* The income specification: the admin (driver 1) and the plain user      *)
(* (driver 2) enter daily logs and trips, crud.update_trip blanks a       *)
(* trip's amounts, and reports and the dashboard are computed.            *)
(***************************************************************************)
DailyForm(d, o1, o2, h, m, earned, p) ==
    [driver_id |-> Some(1), date_str |-> d, odo_start |-> o1, odo_end |-> o2,
     hours |-> h, mins |-> m, total_earned |-> earned, platform |-> p,
     trips_count |-> None]

TripForm(dt, p, fare, tip, bonus, miles, mins) ==
    [driver_id |-> Some(1), vehicle_id |-> None, date |-> dt, platform |-> p,
     fare |-> fare, tip |-> tip, bonus |-> bonus, miles |-> miles, mins |-> mins]

DailyA == DailyForm(Some(Combine(D2, 0)), 100, 110, Some(1), None, 100, "Uber")

DailyB == DailyForm(Some(Combine(D1, 1)), 51, 50, None, Some(45), 50, "")

TripA == TripForm(Some(Combine(D2, 0)), "DoorDash", 40, 5, 0, 10, Some(30))

TripB == TripForm(Some(Combine(D1, TimeMax)), "", 30, 0, 2, 8, None)

TripC == TripForm(Some(Combine(D4, 1)), "Uber", 10, 1, 0, 3, Some(5))

\* the submissions: who posts which form
IncomeDailyInputs == { << "a", DailyA >>, << "a", DailyB >>, << "b", DailyA >> }

IncomeTripInputs == { << "a", TripA >>, << "a", TripB >>, << "a", TripC >>, << "b", TripA >> }

\* the data of an update that blanks a trip's fare, bonus and miles
TripBlank == [fare |-> None, bonus |-> None, miles |-> None]

ReportDriverIds == {None, Some(1)}

ReportRanges == { << None, None >>, << Some(Combine(D1, 1)), Some(Combine(D4, 0)) >> }

IncomeRows == Cardinality(DOMAIN dailies) + Cardinality(DOMAIN trips)

NextIncome ==
    \/ \E in \in IncomeDailyInputs :
           /\ AfterWrite
           /\ IncomeRows < MaxIncomeRows
           /\ daily_create(in[1], in[2])
    \/ \E in \in IncomeTripInputs :
           /\ AfterWrite
           /\ IncomeRows < MaxIncomeRows
           /\ trips_ui_create(in[1], in[2])
    \/ \E t \in DOMAIN trips :
           /\ AfterWrite
           /\ update_trip(t, TripBlank)
    \/ \E c \in Clients, d \in ReportDriverIds, r \in ReportRanges :
           /\ AfterWrite
           /\ reports_ui(c, d, r[1], r[2])
    \/ \E c \in Clients :
           /\ AfterWrite
           /\ dashboard(c)

SpecIncome == InitPopulated /\ [][NextIncome]_vars


(***************************************************************************)
(* Tax scenarios: daily logs, expenses and fuel of driver 1, then reports  *)
(***************************************************************************)
ExpenseForm(dt, category, amount) ==
    [driver_id |-> Some(1), date |-> dt, category |-> category, amount |-> amount]

\* a day without miles, and a day with one mile that earns less than its deduction
TaxDailyForms ==
    { DailyForm(Some(Combine(D2, 0)), 100, 100, None, None, 250, "Uber"),
      DailyForm(Some(Combine(D3, 0)), 100, 101, None, None, 100, "Lyft") }

TaxExpenseForms ==
    { ExpenseForm(Some(Combine(D2, 0)), "Gas", 20),
      ExpenseForm(Some(Combine(D2, 1)), "Fuel", 30),
      ExpenseForm(Some(Combine(D2, TimeMax)), "Tires", 40),
      ExpenseForm(Some(Combine(D3, 0)), "Phone", 50),
      ExpenseForm(Some(Combine(D3, 1)), "Car Wash", 15),
      ExpenseForm(Some(Combine(D3, TimeMax)), "", 10) }

TaxFuelForms ==
    { FuelForm(Some(2), Some(Combine(D2, 0)), 20, 2),
      FuelForm(Some(2), Some(Combine(D3, TimeMax)), 50, 1) }

\* a trip at 00:00 of 1 January and a trip at the last instant of 2 January
TaxTripForms ==
    { TripA, TripForm(Some(Combine(D3, TimeMax)), "Lyft", 20, 0, 0, 0, None) }

TaxRanges == { << None, None >>, << Some(Combine(D3, 0)), Some(Combine(D3, 0)) >> }

TaxRows ==
    Cardinality(DOMAIN dailies) + Cardinality(DOMAIN expenses) + Cardinality(DOMAIN fuels)
    + Cardinality(DOMAIN trips)

NextTax ==
    \/ \E form \in TaxDailyForms :
           /\ AfterWrite
           /\ TaxRows < MaxTaxRows
           /\ daily_create("a", form)
    \/ \E form \in TaxExpenseForms :
           /\ AfterWrite
           /\ TaxRows < MaxTaxRows
           /\ expenses_ui_create("a", form)
    \/ \E form \in TaxFuelForms :
           /\ AfterWrite
           /\ TaxRows < MaxTaxRows
           /\ fuel_ui_create("a", form)
    \/ \E form \in TaxTripForms :
           /\ AfterWrite
           /\ TaxRows < MaxTaxRows
           /\ trips_ui_create("a", form)
    \/ \E r \in TaxRanges :
           /\ AfterWrite
           /\ reports_ui("a", Some(1), r[1], r[2])
    \/ /\ AfterWrite
       /\ dashboard("a")
    \/ /\ AfterWrite
       /\ RollingMpgCall(2)

SpecTax == InitPopulated /\ [][NextTax]_vars


(***************************************************************************)
(* Vehicle handlers                                                        *)
(***************************************************************************)
\* truthiness of an Optional[str] form field
TruthyStr(o) == o # None /\ o[1] # ""

\* db.query(Vehicle).filter(Vehicle.driver_id == did).update({"is_default": False})
ClearDefaults(vs, did) ==
    [v \in DOMAIN vs |-> IF vs[v].driver_id = did
                         THEN [vs[v] EXCEPT !.is_default = FALSE] ELSE vs[v]]

\* POST /vehicles/ui
vehicles_create(c, form) ==
    LET user == require_login(c)
    IN  IF user = None
        THEN /\ response' = Redirect("/login")
             /\ UNCHANGED << db, sessions, inflight >>
        ELSE LET did == IF ~user[1].is_admin THEN user[1].driver_id
                        ELSE to_int_or_none(form.driver_id)
             IN  IF ~Truthy(did)
                 THEN /\ response' = Redirect("/vehicles/ui")
                      /\ UNCHANGED << db, sessions, inflight >>
                 ELSE LET cleared == IF TruthyStr(form.is_default)
                                     THEN ClearDefaults(vehicles, did[1]) ELSE vehicles
                          v == [driver_id |-> did[1],
                                is_default |-> TruthyStr(form.is_default)]
                      IN  IF ~(FkDriver(did[1]))
                          THEN IntegrityError
                          ELSE /\ vehicles' = Insert(cleared, nextId.vehicles, v)
                               /\ nextId' = [nextId EXCEPT !.vehicles = @ + 1]
                               /\ response' = Redirect("/vehicles/ui")
                               /\ UNCHANGED << users, drivers, trips, dailies, expenses,
                                               fuels, sessions, inflight >>

vehicles_edit_clear_old_owner(c, vehicle_id, form) ==
    LET user == require_login(c)
        v    == Get(vehicles, vehicle_id)
    IN  IF user = None
        THEN /\ response' = Redirect("/login")
             /\ UNCHANGED << db, sessions, inflight >>
        ELSE IF v = None \/ (~user[1].is_admin /\ Some(v[1].driver_id) # user[1].driver_id)
        THEN /\ response' = Redirect("/vehicles/ui")
             /\ UNCHANGED << db, sessions, inflight >>
        ELSE LET did == IF ~user[1].is_admin THEN user[1].driver_id[1]
                        ELSE IF Truthy(to_int_or_none(form.driver_id))
                             THEN to_int_or_none(form.driver_id)[1]
                             ELSE v[1].driver_id
                 cleared == IF TruthyStr(form.is_default)
                            THEN ClearDefaults(vehicles, v[1].driver_id) ELSE vehicles
             IN  IF ~(FkDriver(did))
                 THEN IntegrityError
                 ELSE /\ vehicles' = [cleared EXCEPT ![vehicle_id] =
                                         [driver_id |-> did,
                                          is_default |-> TruthyStr(form.is_default)]]
                      /\ response' = Redirect("/vehicles/ui")
                      /\ UNCHANGED << users, drivers, trips, dailies, expenses, fuels,
                                      nextId, sessions, inflight >>

\* POST /vehicles/edit/{vehicle_id}
vehicles_edit(c, vehicle_id, form) ==
    LET user == require_login(c)
        v    == Get(vehicles, vehicle_id)
    IN  IF user = None
        THEN /\ response' = Redirect("/login")
             /\ UNCHANGED << db, sessions, inflight >>
        ELSE IF v = None \/ (~user[1].is_admin /\ Some(v[1].driver_id) # user[1].driver_id)
        THEN /\ response' = Redirect("/vehicles/ui")
             /\ UNCHANGED << db, sessions, inflight >>
        ELSE LET did == IF ~user[1].is_admin THEN user[1].driver_id[1]
                        ELSE IF Truthy(to_int_or_none(form.driver_id))
                             THEN to_int_or_none(form.driver_id)[1]
                             ELSE v[1].driver_id
                 cleared == IF TruthyStr(form.is_default)
                            THEN ClearDefaults(vehicles, did) ELSE vehicles
             IN  IF ~(FkDriver(did))
                 THEN IntegrityError
                 ELSE /\ vehicles' = [cleared EXCEPT ![vehicle_id] =
                                         [driver_id |-> did,
                                          is_default |-> TruthyStr(form.is_default)]]
                      /\ response' = Redirect("/vehicles/ui")
                      /\ UNCHANGED << users, drivers, trips, dailies, expenses, fuels,
                                      nextId, sessions, inflight >>

\* POST /vehicles/delete/{vehicle_id}; the rows that refer to the vehicle through
\* a relationship of Vehicle get a NULL vehicle_id when it is deleted
vehicles_delete(c, vehicle_id) ==
    LET user == require_login(c)
        v    == Get(vehicles, vehicle_id)
    IN  IF user = None
        THEN /\ response' = Redirect("/login")
             /\ UNCHANGED << db, sessions, inflight >>
        ELSE IF v # None /\ (user[1].is_admin \/ Some(v[1].driver_id) = user[1].driver_id)
        THEN /\ vehicles' = Delete(vehicles, vehicle_id)
             /\ trips' = [t \in DOMAIN trips |->
                             IF trips[t].vehicle_id = Some(vehicle_id)
                             THEN [trips[t] EXCEPT !.vehicle_id = None] ELSE trips[t]]
             /\ fuels' = [f \in DOMAIN fuels |->
                             IF fuels[f].vehicle_id = Some(vehicle_id)
                             THEN [fuels[f] EXCEPT !.vehicle_id = None] ELSE fuels[f]]
             /\ response' = Redirect("/vehicles/ui")
             /\ UNCHANGED << users, drivers, dailies, expenses, nextId, sessions, inflight >>
        ELSE /\ response' = Redirect("/vehicles/ui")
             /\ UNCHANGED << db, sessions, inflight >>

(***************************************************************************)
(* The vehicle specification: the admin and the plain user create, edit,   *)
(* move and delete vehicles.                                               *)
(***************************************************************************)
VehicleForm(driver_id, is_default) == [driver_id |-> driver_id, is_default |-> is_default]

VehicleForms ==
    { VehicleForm(d, x) : d \in {None, Some(1), Some(2)}, x \in {None, Some(""), Some("on")} }

\* the vehicle ids of the requests: once stored ones, and one that never was
VehicleIds == 1..(MaxVehicleId + 1)

NextVehicles ==
    \/ \E c \in Clients, form \in VehicleForms :
           /\ nextId.vehicles <= MaxVehicleId
           /\ vehicles_create(c, form)
    \/ \E c \in Clients, v \in VehicleIds, form \in VehicleForms :
           vehicles_edit(c, v, form)
    \/ \E c \in Clients, v \in VehicleIds :
           vehicles_delete(c, v)

SpecVehicles == InitPopulated /\ [][NextVehicles]_vars


(***************************************************************************)
(* The dashboard specification: fill-ups of vehicles 1 and 2 (driver 1)    *)
(* and of the plain user's vehicle are entered, and the dashboard is       *)
(* computed for the admin and for the plain user.                          *)
(***************************************************************************)
DashFuelInputs ==
    { << "a", FuelForm(Some(2), Some(Combine(D1, 0)), 10, 2) >>,
      << "a", FuelForm(Some(2), Some(Combine(D2, 0)), 20, 2) >>,
      << "a", FuelForm(Some(1), Some(Combine(D2, 0)), 90, 3) >>,
      << "a", FuelForm(Some(1), Some(Combine(D3, 0)), 120, 1) >>,
      << "b", FuelForm(None, Some(Combine(D2, TimeMax)), 5, 1) >> }

NextDash ==
    \/ \E in \in DashFuelInputs :
           /\ AfterWrite
           /\ Cardinality(DOMAIN fuels) < MaxDashFuels
           /\ fuel_ui_create(in[1], in[2])
    \/ \E c \in Clients :
           /\ AfterWrite
           /\ dashboard(c)

SpecDash == InitPopulated /\ [][NextDash]_vars


(***************************************************************************)
(* First-time setup, login and logout.  The submitted names carry no       *)
(* surrounding blanks, so strip() leaves them as they are.                 *)
(***************************************************************************)
\* db.query(User).filter(User.username == username).first()
UserByName(username) ==
    LET S == {u \in DOMAIN users : users[u].username = username}
    IN  IF S = {} THEN None ELSE Some(MinOf(S))

\* the rest of setup_do after its check: the driver is flushed, the user is
\* committed and the session is bound to the new user; the unique index on
\* users.username refuses a second user of the same name, and the whole
\* transaction (the driver included) is then rolled back
SetupCreate(c, form) ==
    IF UserByName(form.username) # None
    THEN /\ response' = [kind |-> "error", status |-> 500]
         /\ UNCHANGED << db, sessions >>
    ELSE LET name == IF form.driver_name # "" THEN form.driver_name ELSE form.username
         IN  /\ drivers' = Insert(drivers, nextId.drivers, [name |-> name])
             /\ users' = Insert(users, nextId.users,
                                [username |-> form.username,
                                 password_hash |-> bcrypt_hash(form.password),
                                 driver_id |-> Some(nextId.drivers),
                                 is_admin |-> TRUE])
             /\ nextId' = [nextId EXCEPT !.drivers = @ + 1, !.users = @ + 1]
             /\ sessions' = [sessions EXCEPT ![c] = Some(nextId.users)]
             /\ response' = Redirect("/")
             /\ UNCHANGED << vehicles, trips, dailies, expenses, fuels >>

\* POST /setup, served with no other request in between
setup_do(c, form) ==
    /\ inflight[c] = None
    /\ IF DOMAIN users # {}
       THEN /\ response' = Redirect("/")
            /\ UNCHANGED << db, sessions, inflight >>
       ELSE /\ SetupCreate(c, form)
            /\ UNCHANGED inflight

\* POST /setup, first statement: `if db.query(User).first(): return ...`.
\* The handler is a plain def, so the server runs it in a worker thread and
\* other requests are served between this statement and the commit.
setup_do_check(c, form) ==
    /\ inflight[c] = None
    /\ IF DOMAIN users # {}
       THEN /\ response' = Redirect("/")
            /\ UNCHANGED << db, sessions, inflight >>
       ELSE /\ inflight' = [inflight EXCEPT ![c] = Some(form)]
            /\ UNCHANGED << db, sessions, response >>

\* POST /setup, from db.add(driver) to the end
setup_do_commit(c) ==
    /\ inflight[c] # None
    /\ SetupCreate(c, inflight[c][1])
    /\ inflight' = [inflight EXCEPT ![c] = None]

\* POST /login
login_do(c, username, password) ==
    LET u == UserByName(username)
    IN  IF u = None \/ ~bcrypt_verify(password, users[u[1]].password_hash)
        THEN /\ response' = [kind |-> "login", status |-> 400,
                             error |-> "Invalid credentials."]
             /\ UNCHANGED << db, sessions, inflight >>
        ELSE /\ sessions' = [sessions EXCEPT ![c] = Some(u[1])]
             /\ response' = Redirect("/")
             /\ UNCHANGED << db, inflight >>

\* GET /logout
logout(c) ==
    /\ sessions' = [sessions EXCEPT ![c] = None]
    /\ response' = Redirect("/login")
    /\ UNCHANGED << db, inflight >>


(***************************************************************************)
(* Driver and user administration                                          *)
(***************************************************************************)
drivers_create_no_login(c, form) ==
    /\ drivers' = Insert(drivers, nextId.drivers, [name |-> form.name])
    /\ nextId' = [nextId EXCEPT !.drivers = @ + 1]
    /\ response' = Redirect("/drivers/ui")
    /\ UNCHANGED << users, vehicles, trips, dailies, expenses, fuels,
                    sessions, inflight >>

\* POST /drivers/ui
drivers_create(c, form) ==
    LET user == require_login(c)
    IN  IF user = None \/ ~user[1].is_admin
        THEN /\ response' = Redirect("/drivers/ui")
             /\ UNCHANGED << db, sessions, inflight >>
        ELSE /\ drivers' = Insert(drivers, nextId.drivers, [name |-> form.name])
             /\ nextId' = [nextId EXCEPT !.drivers = @ + 1]
             /\ response' = Redirect("/drivers/ui")
             /\ UNCHANGED << users, vehicles, trips, dailies, expenses, fuels,
                             sessions, inflight >>

\* POST /drivers/edit/{driver_id}
drivers_edit(c, driver_id, form) ==
    LET user == require_login(c)
        d    == Get(drivers, driver_id)
    IN  IF user = None
        THEN /\ response' = Redirect("/login")
             /\ UNCHANGED << db, sessions, inflight >>
        ELSE IF d = None \/ ~user_can_access_driver(user[1], driver_id)
        THEN /\ response' = Redirect("/drivers/ui")
             /\ UNCHANGED << db, sessions, inflight >>
        ELSE /\ drivers' = [drivers EXCEPT ![driver_id].name = form.name]
             /\ response' = Redirect("/drivers/ui")
             /\ UNCHANGED << users, vehicles, trips, dailies, expenses, fuels,
                             nextId, sessions, inflight >>

\* has_rows of drivers_delete
has_rows_no_user_check(driver_id) ==
    \/ \E t \in DOMAIN trips : trips[t].driver_id = driver_id
    \/ \E l \in DOMAIN dailies : dailies[l].driver_id = driver_id
    \/ \E e \in DOMAIN expenses : expenses[e].driver_id = driver_id
    \/ \E f \in DOMAIN fuels : fuels[f].driver_id = driver_id

has_rows(driver_id) ==
    \/ \E t \in DOMAIN trips : trips[t].driver_id = driver_id
    \/ \E l \in DOMAIN dailies : dailies[l].driver_id = driver_id
    \/ \E e \in DOMAIN expenses : expenses[e].driver_id = driver_id
    \/ \E f \in DOMAIN fuels : fuels[f].driver_id = driver_id
    \/ \E u \in DOMAIN users : users[u].driver_id = Some(driver_id)

\* POST /drivers/delete/{driver_id}.  db.delete(d) cascades over the
\* relationships of Driver: the driver's vehicles are deleted with it, and
\* the trips and fill-ups that name one of those vehicles get a NULL
\* vehicle_id.  A row that still names the driver (an expense is not reached
\* by the cascade) would make the commit fail on its foreign key.
drivers_delete(c, driver_id) ==
    LET user == require_login(c)
        d    == Get(drivers, driver_id)
        gone == {v \in DOMAIN vehicles : vehicles[v].driver_id = driver_id}
    IN  IF user = None \/ ~user[1].is_admin
        THEN /\ response' = Redirect("/drivers/ui")
             /\ UNCHANGED << db, sessions, inflight >>
        ELSE IF d = None
        THEN /\ response' = Redirect("/drivers/ui")
             /\ UNCHANGED << db, sessions, inflight >>
        ELSE IF has_rows(driver_id)
        THEN /\ response' = [kind |-> "message", status |-> 400,
                             title |-> "Cannot delete"]
             /\ UNCHANGED << db, sessions, inflight >>
        ELSE IF \E e \in DOMAIN expenses : expenses[e].driver_id = driver_id
        THEN IntegrityError
        ELSE /\ drivers' = Delete(drivers, driver_id)
             /\ users' = [u \in {x \in DOMAIN users : users[x].driver_id # Some(driver_id)}
                             |-> users[u]]
             /\ vehicles' = [v \in DOMAIN vehicles \ gone |-> vehicles[v]]
             /\ trips' = [t \in {x \in DOMAIN trips : trips[x].driver_id # driver_id} |->
                             IF trips[t].vehicle_id # None /\ trips[t].vehicle_id[1] \in gone
                             THEN [trips[t] EXCEPT !.vehicle_id = None] ELSE trips[t]]
             /\ fuels' = [f \in {x \in DOMAIN fuels : fuels[x].driver_id # driver_id} |->
                             IF fuels[f].vehicle_id # None /\ fuels[f].vehicle_id[1] \in gone
                             THEN [fuels[f] EXCEPT !.vehicle_id = None] ELSE fuels[f]]
             /\ dailies' = [l \in {x \in DOMAIN dailies : dailies[x].driver_id # driver_id}
                               |-> dailies[l]]
             /\ response' = Redirect("/drivers/ui")
             /\ UNCHANGED << expenses, nextId, sessions, inflight >>

\* POST /users/ui
users_create(c, form) ==
    LET user == require_login(c)
        did  == to_int_or_none(form.driver_id)
    IN  IF user = None \/ ~user[1].is_admin
        THEN /\ response' = Redirect("/")
             /\ UNCHANGED << db, sessions, inflight >>
        ELSE IF UserByName(form.username) # None \/ (did # None /\ ~FkDriver(did[1]))
        THEN IntegrityError
        ELSE /\ users' = Insert(users, nextId.users,
                                [username |-> form.username,
                                 password_hash |-> bcrypt_hash(form.password),
                                 driver_id |-> did,
                                 is_admin |-> TruthyStr(form.is_admin)])
             /\ nextId' = [nextId EXCEPT !.users = @ + 1]
             /\ response' = Redirect("/users/ui")
             /\ UNCHANGED << drivers, vehicles, trips, dailies, expenses, fuels,
                             sessions, inflight >>


\* POST /users/edit/{user_id}
users_edit(c, user_id, form) ==
    LET user   == require_login(c)
        target == Get(users, user_id)
        did    == to_int_or_none(form.driver_id)
    IN  IF user = None \/ ~user[1].is_admin
        THEN /\ response' = Redirect("/")
             /\ UNCHANGED << db, sessions, inflight >>
        ELSE IF target = None
        THEN /\ response' = Redirect("/users/ui")
             /\ UNCHANGED << db, sessions, inflight >>
        ELSE IF \/ \E u \in DOMAIN users \ {user_id} : users[u].username = form.username
                \/ (did # None /\ ~FkDriver(did[1]))
        THEN IntegrityError
        ELSE /\ users' = [users EXCEPT ![user_id] =
                             [username |-> form.username,
                              password_hash |-> IF form.password # ""
                                                THEN bcrypt_hash(form.password)
                                                ELSE @.password_hash,
                              driver_id |-> did,
                              is_admin |-> TruthyStr(form.is_admin)]]
             /\ response' = Redirect("/users/ui")
             /\ UNCHANGED << drivers, vehicles, trips, dailies, expenses, fuels,
                             nextId, sessions, inflight >>

\* POST /users/delete/{user_id}
users_delete(c, user_id) ==
    LET user   == require_login(c)
        target == Get(users, user_id)
    IN  IF user = None \/ ~user[1].is_admin
        THEN /\ response' = Redirect("/users/ui")
             /\ UNCHANGED << db, sessions, inflight >>
        ELSE IF target # None
        THEN /\ users' = Delete(users, user_id)
             /\ response' = Redirect("/users/ui")
             /\ UNCHANGED << drivers, vehicles, trips, dailies, expenses, fuels,
                             nextId, sessions, inflight >>
        ELSE /\ response' = Redirect("/users/ui")
             /\ UNCHANGED << db, sessions, inflight >>


(***************************************************************************)
(* The administration specification: drivers and users are created,       *)
(* edited and deleted by whoever is an admin at the time (the plain user   *)
(* asks too), and records are entered for drivers that exist, that were    *)
(* deleted and that never were.                                            *)
(***************************************************************************)
UserForm(username, password, driver_id, is_admin) ==
    [username |-> username, password |-> password, driver_id |-> driver_id,
     is_admin |-> is_admin]

\* the ids of the requests: the two of the start, those of created rows, and
\* ones that never were
AdminDriverIds == 1..(2 + MaxAdminCreated)

AdminUserIds == 1..(2 + MaxAdminCreated)

\* a plain user of a driver that may not exist, an unassigned admin, and a
\* name that is taken
AdminUserForms ==
    { UserForm("carl", "pc", Some(3), None),
      UserForm("carl", "pc", None, Some("on")),
      UserForm("bob", "pc", None, None) }

\* the edits: which user is given which form
AdminUserEdits ==
    { << 1, UserForm("admin", "", Some(1), None) >>,
      << 2, UserForm("bob", "", Some(3), None) >>,
      << 2, UserForm("bob", "", None, Some("on")) >>,
      << 2, UserForm("admin", "pb", Some(2), None) >> }

AdminRows ==
    Cardinality(DOMAIN dailies) + Cardinality(DOMAIN trips)
        + Cardinality(DOMAIN expenses) + Cardinality(DOMAIN fuels)

\* the rows created since the start
AdminCreated == (nextId.drivers - 3) + (nextId.users - 3) + AdminRows

NextAdmin ==
    \/ \E c \in Clients :
           /\ AdminCreated < MaxAdminCreated
           /\ drivers_create(c, [name |-> 3])
    \/ \E c \in Clients, d \in AdminDriverIds :
           drivers_delete(c, d)
    \/ \E c \in Clients, form \in AdminUserForms :
           /\ AdminCreated < MaxAdminCreated
           /\ users_create(c, form)
    \/ \E c \in Clients, in \in AdminUserEdits :
           users_edit(c, in[1], in[2])
    \/ \E c \in Clients, u \in AdminUserIds :
           users_delete(c, u)
    \/ \E c \in Clients :
           /\ AdminCreated < MaxAdminCreated
           /\ daily_create(c, [DailyA EXCEPT !.driver_id = Some(2)])
    \/ \E c \in Clients :
           /\ AdminCreated < MaxAdminCreated
           /\ trips_ui_create(c, [TripA EXCEPT !.driver_id = Some(3)])
    \/ \E c \in Clients :
           /\ AdminCreated < MaxAdminCreated
           /\ expenses_ui_create(c, [ExpenseForm(Some(Combine(D2, 0)), "Phone", 50)
                                        EXCEPT !.driver_id = Some(3)])
    \/ \E c \in Clients :
           /\ AdminCreated < MaxAdminCreated
           /\ fuel_ui_create(c, [FuelForm(Some(3), Some(Combine(D2, 0)), 20, 2)
                                    EXCEPT !.driver_id = Some(2)])

SpecAdmin == InitPopulated /\ [][NextAdmin]_vars


(***************************************************************************)
(* Edit and delete handlers of the records                                 *)
(***************************************************************************)
\* POST /daily/edit/{log_id}
daily_edit(c, log_id, form) ==
    LET user == require_login(c)
        log  == Get(dailies, log_id)
    IN  IF user = None
        THEN /\ response' = Redirect("/login")
             /\ UNCHANGED << db, sessions, inflight >>
        ELSE IF log = None \/ ~user_can_access_driver(user[1], log[1].driver_id)
        THEN /\ response' = Redirect("/daily/ui")
             /\ UNCHANGED << db, sessions, inflight >>
        ELSE LET did == IF Truthy(to_int_or_none(form.driver_id))
                        THEN to_int_or_none(form.driver_id)[1] ELSE log[1].driver_id
             IN  IF ~FkDriver(did)
                 THEN IntegrityError
                 ELSE /\ dailies' = [dailies EXCEPT ![log_id] =
                             [driver_id |-> did,
                              date |-> IF form.date_str # None
                                       THEN parse_day_from_form(form.date_str, Some(@.date))
                                       ELSE @.date,
                              odo_start |-> Some(form.odo_start),
                              odo_end |-> Some(form.odo_end),
                              minutes_driven |->
                                  Some(OrZero(form.hours) * 60 + OrZero(form.mins)),
                              total_earned |-> Some(form.total_earned),
                              platform |-> StrOrNone(form.platform),
                              trips_count |-> form.trips_count]]
                      /\ response' = Redirect("/daily/ui")
                      /\ UNCHANGED << users, drivers, vehicles, trips, expenses, fuels,
                                      nextId, sessions, inflight >>

\* POST /daily/delete/{log_id}
daily_delete(c, log_id) ==
    LET user == require_login(c)
        log  == Get(dailies, log_id)
    IN  IF user = None
        THEN /\ response' = Redirect("/login")
             /\ UNCHANGED << db, sessions, inflight >>
        ELSE IF log # None /\ user_can_access_driver(user[1], log[1].driver_id)
        THEN /\ dailies' = Delete(dailies, log_id)
             /\ response' = Redirect("/daily/ui")
             /\ UNCHANGED << users, drivers, vehicles, trips, expenses, fuels,
                             nextId, sessions, inflight >>
        ELSE /\ response' = Redirect("/daily/ui")
             /\ UNCHANGED << db, sessions, inflight >>

\* POST /trips/delete/{trip_id}
trips_delete(c, trip_id) ==
    LET user == require_login(c)
        t    == Get(trips, trip_id)
    IN  IF user = None
        THEN /\ response' = Redirect("/login")
             /\ UNCHANGED << db, sessions, inflight >>
        ELSE IF t # None /\ user_can_access_driver(user[1], t[1].driver_id)
        THEN /\ trips' = Delete(trips, trip_id)
             /\ response' = Redirect("/trips/ui")
             /\ UNCHANGED << users, drivers, vehicles, dailies, expenses, fuels,
                             nextId, sessions, inflight >>
        ELSE /\ response' = Redirect("/trips/ui")
             /\ UNCHANGED << db, sessions, inflight >>

\* POST /expenses/delete/{expense_id}
expenses_delete(c, expense_id) ==
    LET user == require_login(c)
        e    == Get(expenses, expense_id)
    IN  IF user = None
        THEN /\ response' = Redirect("/login")
             /\ UNCHANGED << db, sessions, inflight >>
        ELSE IF e # None /\ user_can_access_driver(user[1], e[1].driver_id)
        THEN /\ expenses' = Delete(expenses, expense_id)
             /\ response' = Redirect("/expenses/ui")
             /\ UNCHANGED << users, drivers, vehicles, trips, dailies, fuels,
                             nextId, sessions, inflight >>
        ELSE /\ response' = Redirect("/expenses/ui")
             /\ UNCHANGED << db, sessions, inflight >>

\* POST /fuel/delete/{fuel_id}
fuel_delete(c, fuel_id) ==
    LET user == require_login(c)
        f    == Get(fuels, fuel_id)
    IN  IF user = None
        THEN /\ response' = Redirect("/login")
             /\ UNCHANGED << db, sessions, inflight >>
        ELSE IF f # None /\ user_can_access_driver(user[1], f[1].driver_id)
        THEN /\ fuels' = Delete(fuels, fuel_id)
             /\ response' = Redirect("/fuel/ui")
             /\ UNCHANGED << users, drivers, vehicles, trips, dailies, expenses,
                             nextId, sessions, inflight >>
        ELSE /\ response' = Redirect("/fuel/ui")
             /\ UNCHANGED << db, sessions, inflight >>

\* POST /fuel/edit/{fuel_id}
fuel_edit(c, fuel_id, form) ==
    LET user == require_login(c)
        f    == Get(fuels, fuel_id)
    IN  IF user = None
        THEN /\ response' = Redirect("/login")
             /\ UNCHANGED << db, sessions, inflight >>
        ELSE IF f = None \/ ~user_can_access_driver(user[1], f[1].driver_id)
        THEN /\ response' = Redirect("/fuel/ui")
             /\ UNCHANGED << db, sessions, inflight >>
        ELSE LET did == IF ~user[1].is_admin THEN user[1].driver_id[1]
                        ELSE IF Truthy(to_int_or_none(form.driver_id))
                             THEN to_int_or_none(form.driver_id)[1]
                             ELSE f[1].driver_id
                 vid0 == IF Truthy(to_int_or_none(form.vehicle_id))
                         THEN to_int_or_none(form.vehicle_id) ELSE f[1].vehicle_id
                 vid == IF Truthy(vid0) THEN vid0 ELSE drivers_default_vehicle(did)
             IN  IF ~(FkDriver(did) /\ FkVehicle(vid))
                 THEN IntegrityError
                 ELSE /\ fuels' = [fuels EXCEPT ![fuel_id] =
                             [driver_id |-> did, vehicle_id |-> vid,
                              date |-> parse_date_from_form(form.date, Some(@.date)),
                              odometer |-> Some(form.odometer),
                              gallons |-> Some(form.gallons),
                              total_paid |-> Some(form.total_paid)]]
                      /\ response' = Redirect("/fuel/ui")
                      /\ UNCHANGED << users, drivers, vehicles, trips, dailies, expenses,
                                      nextId, sessions, inflight >>


(***************************************************************************)
(* Listing pages.  A page is modelled by the set of the rows it lists: the *)
(* order of the rows is left out, and limit(200) is beyond the row counts  *)
(* of the specifications.                                                  *)
(***************************************************************************)
Listing(c, page, rows, vs) ==
    [kind |-> "list", page |-> page, user |-> sessions[c][1], rows |-> rows,
     vehicles |-> vs]

\* the vehicles of the drop-down of trips_ui and fuel_ui
DropdownVehicles(user, driver_id) ==
    IF ~user.is_admin
    THEN {v \in DOMAIN vehicles : Some(vehicles[v].driver_id) = user.driver_id}
    ELSE IF Truthy(driver_id)
         THEN {v \in DOMAIN vehicles : vehicles[v].driver_id = driver_id[1]}
         ELSE DOMAIN vehicles

\* GET /daily/ui
daily_ui(c, driver_id) ==
    LET user == require_login(c)
    IN  /\ UNCHANGED << db, sessions, inflight >>
        /\ IF user = None
           THEN response' = Redirect("/login")
           ELSE IF user[1].is_admin
                THEN response' = Listing(c, "/daily/ui",
                         {l \in DOMAIN dailies :
                             Truthy(driver_id) => dailies[l].driver_id = driver_id[1]}, {})
                ELSE response' = Listing(c, "/daily/ui",
                         {l \in DOMAIN dailies :
                             Some(dailies[l].driver_id) = user[1].driver_id}, {})

\* GET /trips/ui
trips_ui(c, driver_id) ==
    LET user == require_login(c)
    IN  /\ UNCHANGED << db, sessions, inflight >>
        /\ IF user = None
           THEN response' = Redirect("/login")
           ELSE LET did == IF ~user[1].is_admin THEN user[1].driver_id ELSE driver_id
                IN  response' = Listing(c, "/trips/ui",
                        {t \in DOMAIN trips : Truthy(did) => trips[t].driver_id = did[1]},
                        DropdownVehicles(user[1], did))

\* GET /expenses/ui
expenses_ui(c, driver_id) ==
    LET user == require_login(c)
    IN  /\ UNCHANGED << db, sessions, inflight >>
        /\ IF user = None
           THEN response' = Redirect("/login")
           ELSE LET did == IF ~user[1].is_admin THEN user[1].driver_id ELSE driver_id
                IN  response' = Listing(c, "/expenses/ui",
                        {e \in DOMAIN expenses :
                            Truthy(did) => expenses[e].driver_id = did[1]}, {})

\* GET /fuel/ui
fuel_ui(c, driver_id) ==
    LET user == require_login(c)
    IN  /\ UNCHANGED << db, sessions, inflight >>
        /\ IF user = None
           THEN response' = Redirect("/login")
           ELSE LET did == IF ~user[1].is_admin THEN user[1].driver_id ELSE driver_id
                IN  response' = Listing(c, "/fuel/ui",
                        {f \in DOMAIN fuels : Truthy(did) => fuels[f].driver_id = did[1]},
                        DropdownVehicles(user[1], did))

\* GET /vehicles/ui
vehicles_ui(c) ==
    LET user == require_login(c)
    IN  /\ UNCHANGED << db, sessions, inflight >>
        /\ IF user = None
           THEN response' = Redirect("/login")
           ELSE response' = Listing(c, "/vehicles/ui",
                    {v \in DOMAIN vehicles :
                        (~user[1].is_admin /\ Truthy(user[1].driver_id))
                            => vehicles[v].driver_id = user[1].driver_id[1]}, {})


(***************************************************************************)
(* The access specification: the admin and the plain user request every    *)
(* create, edit and delete handler of the records, vehicles and drivers.   *)
(***************************************************************************)
\* the rows created since the start
AccessCreated ==
    (nextId.drivers - 3) + (nextId.users - 3) + (nextId.vehicles - 4)
        + (nextId.dailies - 1) + (nextId.trips - 1) + (nextId.expenses - 1)
        + (nextId.fuels - 1)

\* the ids of the requests: those of stored rows and ones that never were
AccessRowIds == 1..(MaxAccessCreated + 1)

AccessFormDrivers == {None, Some(1)}

AccessDailyForm(d) ==
    [DailyForm(Some(Combine(D2, 0)), 100, 110, None, None, 100, "Uber")
        EXCEPT !.driver_id = d]

AccessFuelForm(d, v) ==
    [FuelForm(v, Some(Combine(D2, 0)), 20, 2) EXCEPT !.driver_id = d]

\* the create, edit and delete requests of client c for records, vehicles
\* and drivers; in gives the drivers and vehicles the forms name and the ids
\* of the rows, vehicles and drivers the requests are about
RecordWrites(c, in) ==
    \/ \E d \in in.form_drivers :
           /\ AccessCreated < MaxAccessCreated
           /\ daily_create(c, AccessDailyForm(d))
    \/ \E l \in in.rows, d \in in.form_drivers :
           daily_edit(c, l, AccessDailyForm(d))
    \/ \E l \in in.rows :
           daily_delete(c, l)
    \/ \E v \in in.form_vehicles :
           /\ AccessCreated < MaxAccessCreated
           /\ trips_ui_create(c, [TripA EXCEPT !.vehicle_id = v])
    \/ \E t \in in.rows :
           trips_delete(c, t)
    \/ /\ AccessCreated < MaxAccessCreated
       /\ expenses_ui_create(c, ExpenseForm(Some(Combine(D2, 0)), "Phone", 50))
    \/ \E e \in in.rows :
           expenses_delete(c, e)
    \/ \E d \in in.form_drivers, v \in in.form_vehicles :
           /\ AccessCreated < MaxAccessCreated
           /\ fuel_ui_create(c, AccessFuelForm(d, v))
    \/ \E f \in in.rows, v \in in.form_vehicles :
           fuel_edit(c, f, AccessFuelForm(Some(1), v))
    \/ \E f \in in.rows :
           fuel_delete(c, f)
    \/ /\ AccessCreated < MaxAccessCreated
       /\ vehicles_create(c, VehicleForm(Some(1), Some("on")))
    \/ \E v \in in.vehicles :
           vehicles_edit(c, v, VehicleForm(Some(2), None))
    \/ \E v \in in.vehicles :
           vehicles_delete(c, v)
    \/ /\ AccessCreated < MaxAccessCreated
       /\ drivers_create(c, [name |-> 3])
    \/ \E d \in in.drivers :
           drivers_edit(c, d, [name |-> 3])
    \/ drivers_delete(c, 3)

AccessInputs ==
    [form_drivers |-> {None, Some(1)}, form_vehicles |-> {None, Some(2)},
     rows |-> AccessRowIds, vehicles |-> {2, 3}, drivers |-> {1, 2}]

NextAccess ==
    \E c \in Clients : RecordWrites(c, AccessInputs)

SpecAccess == InitPopulated /\ [][NextAccess]_vars


(***************************************************************************)
(* The listing specification: the admin and the plain user enter records,  *)
(* the admin takes the plain user's driver away and gives it back, and the *)
(* five listing pages are read.  A page is the last step of a behaviour.   *)
(***************************************************************************)
NotAPage == response.kind # "list"

PageRows ==
    Cardinality(DOMAIN dailies) + Cardinality(DOMAIN trips)
        + Cardinality(DOMAIN expenses) + Cardinality(DOMAIN fuels)

NextPages ==
    \/ \E c \in Clients, d \in {None, Some(2)} :
           /\ NotAPage
           /\ users_edit(c, 2, UserForm("bob", "", d, None))
    \/ \E c \in Clients :
           /\ NotAPage
           /\ PageRows < MaxPageRows
           /\ daily_create(c, AccessDailyForm(Some(1)))
    \/ \E c \in Clients :
           /\ NotAPage
           /\ PageRows < MaxPageRows
           /\ trips_ui_create(c, TripA)
    \/ \E c \in Clients :
           /\ NotAPage
           /\ PageRows < MaxPageRows
           /\ expenses_ui_create(c, ExpenseForm(Some(Combine(D2, 0)), "Phone", 50))
    \/ \E c \in Clients :
           /\ NotAPage
           /\ PageRows < MaxPageRows
           /\ fuel_ui_create(c, AccessFuelForm(Some(1), None))
    \/ \E c \in Clients, d \in AccessFormDrivers :
           /\ NotAPage
           /\ daily_ui(c, d)
    \/ \E c \in Clients, d \in AccessFormDrivers :
           /\ NotAPage
           /\ trips_ui(c, d)
    \/ \E c \in Clients, d \in AccessFormDrivers :
           /\ NotAPage
           /\ expenses_ui(c, d)
    \/ \E c \in Clients, d \in AccessFormDrivers :
           /\ NotAPage
           /\ fuel_ui(c, d)
    \/ \E c \in Clients :
           /\ NotAPage
           /\ vehicles_ui(c)

SpecPages == InitPopulated /\ [][NextPages]_vars


(***************************************************************************)
(* The session specification: browsers log in and out, users are created,  *)
(* edited and deleted (the last one too, after which setup is open again), *)
(* and every create, edit and delete handler is requested with and without *)
(* a session.  The record requests come from the browser b, which starts   *)
(* with bob's session and may lose it, drop it or take root's; the user    *)
(* administration requests come from both browsers.                        *)
(***************************************************************************)
SessionLogins == { << "bob", "pb" >>, << "bob", "pa" >>, << "root", "pr" >> }

SetupForm(username, password, driver_name) ==
    [username |-> username, password |-> password, driver_name |-> driver_name]

SessionInputs ==
    [form_drivers |-> {Some(1)}, form_vehicles |-> {None},
     rows |-> {1}, vehicles |-> {3}, drivers |-> {1}]

\* the create, edit and delete requests of client c for users
UserWrites(c) ==
    \/ /\ AccessCreated < MaxAccessCreated
       /\ users_create(c, UserForm("carl", "pc", None, None))
    \/ users_edit(c, 2, UserForm("bob", "", None, None))
    \/ \E u \in {1, 2} :
           users_delete(c, u)

NextSession ==
    \/ RecordWrites("b", SessionInputs)
    \/ \E c \in Clients : UserWrites(c)
    \/ \E c \in Clients, in \in SessionLogins : login_do(c, in[1], in[2])
    \/ \E c \in Clients : logout(c)
    \/ \E c \in Clients :
           /\ AccessCreated < MaxAccessCreated
           /\ setup_do(c, SetupForm("root", "pr", ""))

SpecSession == InitPopulated /\ [][NextSession]_vars

(***************************************************************************)
(* The setup specification: a fresh installation with an empty store.  Two *)
(* browsers post the setup form; each request is served in two steps (the  *)
(* check and the rest of the handler), so the requests overlap.  Admins    *)
(* log in and out and delete users, after which setup is open again.       *)
(***************************************************************************)
InitEmpty ==
    /\ drivers  = EmptyTable
    /\ users    = EmptyTable
    /\ vehicles = EmptyTable
    /\ trips    = EmptyTable
    /\ dailies  = EmptyTable
    /\ expenses = EmptyTable
    /\ fuels    = EmptyTable
    /\ nextId   = [users |-> 1, drivers |-> 1, vehicles |-> 1, trips |-> 1,
                   dailies |-> 1, expenses |-> 1, fuels |-> 1]
    /\ sessions = [c \in Clients |-> None]
    /\ response = Redirect("/setup")
    /\ inflight = [c \in Clients |-> None]

SetupForms == { SetupForm("admin", "pa", "Ann"), SetupForm("root", "pr", "") }

\* the setup requests that have passed the check, committed or not
SetupsStarted ==
    (nextId.users - 1) + Cardinality({c \in Clients : inflight[c] # None})

NextSetup ==
    \/ \E c \in Clients, form \in SetupForms :
           /\ SetupsStarted < MaxSetups
           /\ setup_do_check(c, form)
    \/ \E c \in Clients : setup_do_commit(c)
    \/ \E c \in Clients, form \in SetupForms :
           /\ inflight[c] = None
           /\ login_do(c, form.username, form.password)
    \/ \E c \in Clients :
           /\ inflight[c] = None
           /\ logout(c)
    \/ \E c \in Clients, u \in 1..MaxSetups :
           /\ inflight[c] = None
           /\ users_delete(c, u)

SpecSetup == InitEmpty /\ [][NextSetup]_vars

(***************************************************************************)
(* Claims about the fuel economy calculator                                *)
(***************************************************************************)
VehicleFuels(v) == {f \in DOMAIN fuels : fuels[f].vehicle_id = Some(v)}

\* f comes before g in (timestamp, id) order
FuelBefore(f, g) ==
    \/ fuels[f].date[1] < fuels[g].date[1]
    \/ (fuels[f].date[1] = fuels[g].date[1] /\ fuels[f].date[2] < fuels[g].date[2])
    \/ (fuels[f].date = fuels[g].date /\ f < g)

\* the fill right before g among the fills of g's vehicle (g is not the first)
PrevFill(v, g) ==
    CHOOSE f \in VehicleFuels(v) :
        /\ FuelBefore(f, g)
        /\ \A h \in VehicleFuels(v) : FuelBefore(h, g) => (h = f \/ FuelBefore(h, f))

\* the fills of v that close an interval: all but the first
Closing(v) == {g \in VehicleFuels(v) : \E f \in VehicleFuels(v) : FuelBefore(f, g)}

IntervalMiles(v, g) ==
    LET d == fuels[g].odometer[1] - fuels[PrevFill(v, g)].odometer[1]
    IN  IF d > 0 THEN d ELSE 0

TotalIntervalMiles(v) == SumOver(Closing(v), [g \in Closing(v) |-> IntervalMiles(v, g)])

TotalIntervalGallons(v) == SumOver(Closing(v), [g \in Closing(v) |-> fuels[g].gallons[1]])

\* C4: with at least two fills of a vehicle, the weighted average returned by
\* rolling_mpg_for_vehicle is (total of the interval miles) / (total of the
\* interval gallons), the intervals being the consecutive pairs in (timestamp,
\* id) order, interval miles max(0, curr.odometer - prev.odometer), interval
\* gallons curr.gallons (the first fill's gallons never counted): an average is
\* returned whenever the total of the gallons is positive, and a returned
\* average n/d satisfies n * gallons = miles * d.
C4_WeightedAverage ==
    (response.kind = "mpg" /\ Cardinality(VehicleFuels(response.vehicle_id)) >= 2) =>
        LET v == response.vehicle_id
            a == response.weighted_avg
        IN  /\ TotalIntervalGallons(v) > 0 => a # None
            /\ a # None =>
                  /\ a[1][2] > 0
                  /\ a[1][1] * TotalIntervalGallons(v) = TotalIntervalMiles(v) * a[1][2]

\* C4 witness: three fills entered out of date order give two measurable
\* intervals whose weighted average differs from the mean of the interval MPGs.
C4_Witness ==
    /\ response.kind = "mpg"
    /\ Cardinality(VehicleFuels(response.vehicle_id)) = 3
    /\ Len(response.series) = 2
    /\ \A i \in 1..2 : response.series[i].mpg # None
    /\ response.weighted_avg # None
    /\ response.weighted_avg[1] #
          RatDivInt(RatAdd(response.series[1].mpg[1], response.series[2].mpg[1]), 2)
    /\ \E f, g \in VehicleFuels(response.vehicle_id) : f < g /\ FuelBefore(g, f)

\* C5: with fewer than two fills of the vehicle the weighted average is None;
\* with none the series is empty, with exactly one the series has exactly one
\* entry, whose mpg is None.
C5_FewerThanTwo ==
    (response.kind = "mpg" /\ Cardinality(VehicleFuels(response.vehicle_id)) < 2) =>
        /\ response.weighted_avg = None
        /\ Cardinality(VehicleFuels(response.vehicle_id)) = 0 => response.series = << >>
        /\ Cardinality(VehicleFuels(response.vehicle_id)) = 1 =>
              /\ Len(response.series) = 1
              /\ response.series[1].mpg = None

\* C5 witness: the vehicle asked for has exactly one fill, other vehicles have fills too.
C5_Witness ==
    /\ response.kind = "mpg"
    /\ Cardinality(VehicleFuels(response.vehicle_id)) = 1
    /\ Cardinality(DOMAIN fuels) = 3
    /\ Len(response.series) = 1

(***************************************************************************)
(* Claims about reconciliation and aggregation                             *)
(***************************************************************************)
\* a missing amount counts as 0
Amt(o) == IF o = << >> THEN 0 ELSE o[1]

\* the calendar date of a trip, expense or fuel record
Day(row) == row.date[1]

\* some daily log of the trip's own driver is on the trip's calendar date
Shadowed(t) ==
    \E d \in DOMAIN dailies :
        dailies[d].driver_id = trips[t].driver_id /\ dailies[d].date = Day(trips[t])

DailiesIn(drv, s, e) ==
    {d \in DOMAIN dailies :
        dailies[d].driver_id = drv /\ s <= dailies[d].date /\ dailies[d].date <= e}

TripsIn(drv, s, e) ==
    {t \in DOMAIN trips :
        trips[t].driver_id = drv /\ s <= Day(trips[t]) /\ Day(trips[t]) <= e}

KeptIn(drv, s, e) == {t \in TripsIn(drv, s, e) : ~Shadowed(t)}

Fares(t) == Amt(trips[t].fare) + Amt(trips[t].tip) + Amt(trips[t].bonus)

LogMiles(d) ==
    IF Amt(dailies[d].odo_end) > Amt(dailies[d].odo_start)
    THEN Amt(dailies[d].odo_end) - Amt(dailies[d].odo_start) ELSE 0

Label(o) == IF o = << >> THEN "(unspecified)" ELSE IF o[1] = "" THEN "(unspecified)" ELSE o[1]

\* the rate of a year: the table's, or the largest of the table for a year it lacks
RateOrMax(y) ==
    IF y \in DOMAIN MILEAGE_RATES THEN MILEAGE_RATES[y]
    ELSE CHOOSE r \in {MILEAGE_RATES[k] : k \in DOMAIN MILEAGE_RATES} :
             \A k \in DOMAIN MILEAGE_RATES : MILEAGE_RATES[k] <= r

IsReport == response.kind = "report"

RDailies == DailiesIn(response.driver_id, response.start, response.end)

RTrips == TripsIn(response.driver_id, response.start, response.end)

RKept == KeptIn(response.driver_id, response.start, response.end)

\* the drivers whose records a dashboard response covers
DashDrivers ==
    IF users[response.user].is_admin THEN DOMAIN drivers
    ELSE {d \in DOMAIN drivers : users[response.user].driver_id = << d >>}

DashDailies == {d \in DOMAIN dailies : dailies[d].driver_id \in DashDrivers}

DashKept == {t \in DOMAIN trips : trips[t].driver_id \in DashDrivers /\ ~Shadowed(t)}

\* C1: in the report and on the dashboard a trip is counted iff no daily log of
\* its own driver is on its calendar date, whatever the platforms: gross income,
\* miles, minutes, platform income and the miles attributed to each year are the
\* daily logs' plus those of the trips that are not shadowed, and when every
\* in-range trip is shadowed the income is exactly the daily logs' total_earned.
C1_NoDoubleCount ==
    /\ IsReport =>
          LET r == response.result IN
          /\ r.gross = SumOver(RDailies, [d \in RDailies |-> Amt(dailies[d].total_earned)])
                       + SumOver(RKept, [t \in RKept |-> Fares(t)])
          /\ r.business_miles = SumOver(RDailies, [d \in RDailies |-> LogMiles(d)])
                                + SumOver(RKept, [t \in RKept |-> Amt(trips[t].miles)])
          /\ r.minutes = SumOver(RDailies, [d \in RDailies |-> Amt(dailies[d].minutes_driven)])
                         + SumOver(RKept, [t \in RKept |-> Amt(trips[t].duration_minutes)])
          /\ DOMAIN r.platform_income =
                 {Label(dailies[d].platform) : d \in RDailies}
                 \cup {Label(trips[t].platform) : t \in RKept}
          /\ \A l \in DOMAIN r.platform_income :
                 LET dl == {d \in RDailies : Label(dailies[d].platform) = l}
                     tr == {t \in RKept : Label(trips[t].platform) = l}
                 IN  r.platform_income[l] =
                         SumOver(dl, [d \in dl |-> Amt(dailies[d].total_earned)])
                         + SumOver(tr, [t \in tr |-> Fares(t)])
          /\ r.std_mileage_deduction =
                 SumOver(RDailies, [d \in RDailies |->
                                       LogMiles(d) * RateOrMax(dailies[d].date \div 1000)])
                 + SumOver(RKept, [t \in RKept |->
                                       Amt(trips[t].miles) * RateOrMax(Day(trips[t]) \div 1000)])
          /\ (\A t \in RTrips : Shadowed(t)) =>
                 r.gross = SumOver(RDailies, [d \in RDailies |-> Amt(dailies[d].total_earned)])
    /\ response.kind = "dashboard" =>
          /\ response.gross =
                 SumOver(DashDailies, [d \in DashDailies |-> Amt(dailies[d].total_earned)])
                 + SumOver(DashKept, [t \in DashKept |-> Fares(t)])
          /\ response.miles =
                 SumOver(DashDailies, [d \in DashDailies |-> LogMiles(d)])
                 + SumOver(DashKept, [t \in DashKept |-> Amt(trips[t].miles)])

\* C1 witness: a report over a range holding a daily log, a trip of the same
\* driver on the log's date entered for another platform (shadowed) and a trip
\* on a date without a log (kept).
C1_Witness ==
    /\ IsReport
    /\ \E t \in RTrips, d \in RDailies :
           /\ dailies[d].date = Day(trips[t])
           /\ dailies[d].platform # trips[t].platform
    /\ RKept # {}
    /\ response.result.gross > 0

\* C2: the report's gross income is the sum of total_earned over the in-range
\* daily logs plus the sum of fare + tip + bonus over the kept trips, a missing
\* amount counting as 0; with no daily log in range it is the plain sum over all
\* in-range trips.
C2_GrossIncome ==
    IsReport =>
        /\ response.result.gross =
               SumOver(RDailies, [d \in RDailies |-> Amt(dailies[d].total_earned)])
               + SumOver(RKept, [t \in RKept |->
                     Amt(trips[t].fare) + Amt(trips[t].tip) + Amt(trips[t].bonus)])
        /\ RDailies = {} =>
               response.result.gross =
                   SumOver(RTrips, [t \in RTrips |->
                       Amt(trips[t].fare) + Amt(trips[t].tip) + Amt(trips[t].bonus)])

\* C2 witness: a report whose range holds a daily log, a kept trip with all its
\* amounts and a kept trip whose fare is missing.
C2_Witness ==
    /\ IsReport
    /\ RDailies # {}
    /\ \E t, u \in RKept :
           /\ trips[t].fare = << >> /\ Amt(trips[t].tip) > 0
           /\ trips[u].fare # << >> /\ Amt(trips[u].bonus) > 0

\* C3: the trip filter is idempotent: the rule "keep a trip iff no daily log of
\* the input has its (driver, date)" applied to the trips the report kept, with
\* the same daily logs, returns exactly those trips.
C3_DedupIdempotent ==
    IsReport =>
        LET kept == ReportTripsIncluded(response.driver_id, response.start, response.end)
        IN  {t \in kept : ~\E d \in RDailies :
                               /\ dailies[d].driver_id = trips[t].driver_id
                               /\ dailies[d].date = Day(trips[t])} = kept

\* C3 witness: the report dropped some of the in-range trips and kept others.
C3_Witness ==
    /\ IsReport
    /\ ReportTripsIncluded(response.driver_id, response.start, response.end) # {}
    /\ ReportTripsIncluded(response.driver_id, response.start, response.end)
           # ReportTrips(response.driver_id, response.start, response.end)

\* the years of the in-range daily logs and kept trips
RYears == {dailies[d].date \div 1000 : d \in RDailies} \cup {Day(trips[t]) \div 1000 : t \in RKept}

\* the business miles of year y in the report range
RMilesOf(y) ==
    LET dl == {d \in RDailies : dailies[d].date \div 1000 = y}
        tr == {t \in RKept : Day(trips[t]) \div 1000 = y}
    IN  SumOver(dl, [d \in dl |-> LogMiles(d)]) + SumOver(tr, [t \in tr |-> Amt(trips[t].miles)])

\* C6: the standard mileage deduction is the sum over the calendar years with
\* business miles in the range of (the year's miles) x (the year's rate of the
\* rate table), each record's miles attributed to the year of its own date.
C6_PerYearRate ==
    (IsReport /\ RYears \subseteq DOMAIN MILEAGE_RATES) =>
        response.result.std_mileage_deduction =
            SumOver(RYears, [y \in RYears |-> RMilesOf(y) * MILEAGE_RATES[y]])

\* C6 witness: a range with miles in 2023 and in 2024, whose rates differ.
C6_Witness ==
    /\ IsReport
    /\ RYears = {2023, 2024}
    /\ RMilesOf(2023) > 0 /\ RMilesOf(2024) > 0
    /\ MILEAGE_RATES[2023] # MILEAGE_RATES[2024]
    /\ response.result.std_mileage_deduction =
           RMilesOf(2023) * 655 + RMilesOf(2024) * 670

\* C7: the miles of a year that is no key of the rate table are deducted at the
\* largest rate of the table: the report is produced, and the rate used for
\* such a year is never zero.
C7_UnknownYearMaxRate ==
    IsReport =>
        /\ response.result.std_mileage_deduction =
               SumOver(RYears, [y \in RYears |-> RMilesOf(y) * RateOrMax(y)])
        /\ \A y \in RYears \ DOMAIN MILEAGE_RATES :
               /\ RateOrMax(y) > 0
               /\ response.result.std_mileage_deduction >= RMilesOf(y) * RateOrMax(y)

\* C7 witness: a report whose range holds miles of 2030, a year the table lacks.
C7_Witness ==
    /\ IsReport
    /\ 2030 \in RYears /\ 2030 \notin DOMAIN MILEAGE_RATES
    /\ RMilesOf(2030) > 0
    /\ response.result.std_mileage_deduction >= RMilesOf(2030) * 670

(***************************************************************************)
(* Claims about the two tax scenarios                                      *)
(***************************************************************************)
RExpenses ==
    {e \in DOMAIN expenses :
        /\ expenses[e].driver_id = response.driver_id
        /\ response.start <= Day(expenses[e]) /\ Day(expenses[e]) <= response.end}

RFuels ==
    {f \in DOMAIN fuels :
        /\ fuels[f].driver_id = response.driver_id
        /\ response.start <= Day(fuels[f]) /\ Day(fuels[f]) <= response.end}

\* max(0, net x 0.9235) x 0.153, in units of 10^-7
SeTaxOf(net) == IF net > 0 THEN net * 9235 * 153 ELSE 0

\* C8: in both scenarios the self-employment tax is max(0, net x 0.9235) x 0.153:
\* it is never negative and it is 0 when the scenario's net is a loss.
C8_SeTax ==
    IsReport =>
        LET r == response.result IN
        /\ r.se_tax_standard = SeTaxOf(r.net_standard)
        /\ r.se_tax_actual = SeTaxOf(r.net_actual)
        /\ r.se_tax_standard >= 0 /\ r.se_tax_actual >= 0
        /\ r.net_standard <= 0 => r.se_tax_standard = 0
        /\ r.net_actual <= 0 => r.se_tax_actual = 0

\* C8 witness: a report whose standard scenario is a loss (tax 0) and whose
\* actual scenario has a positive net (tax positive).
C8_Witness ==
    /\ IsReport
    /\ response.result.net_standard < 0 /\ response.result.se_tax_standard = 0
    /\ response.result.net_actual > 0 /\ response.result.se_tax_actual > 0

\* C9: both scenarios start from the same gross income and the same non-vehicle
\* expense total: the standard total is the standard mileage deduction plus the
\* non-vehicle expenses, the actual total is (vehicle-operating expenses plus
\* the fuel records' total_paid) plus the non-vehicle expenses, and each net is
\* the gross income minus the scenario's total.
C9_TwoScenarios ==
    IsReport =>
        LET r == response.result IN
        /\ r.fuel_paid_total = SumOver(RFuels, [f \in RFuels |-> Amt(fuels[f].total_paid)])
        /\ r.actual_vehicle_expenses = r.vehicle_op_total + r.fuel_paid_total
        /\ r.total_deduct_standard = r.std_mileage_deduction + r.non_vehicle_exp_total
        /\ r.total_deduct_actual =
               (r.vehicle_op_total + r.fuel_paid_total) + r.non_vehicle_exp_total
        /\ r.net_standard = r.gross - r.total_deduct_standard
        /\ r.net_actual = r.gross - r.total_deduct_actual

\* C9 witness: a report with income, miles, a non-vehicle expense, a
\* vehicle-operating expense and a fuel record, whose two totals differ.
C9_Witness ==
    /\ IsReport
    /\ response.result.gross > 0
    /\ response.result.std_mileage_deduction > 0
    /\ response.result.non_vehicle_exp_total > 0
    /\ response.result.vehicle_op_total > 0
    /\ response.result.fuel_paid_total > 0
    /\ response.result.total_deduct_standard # response.result.total_deduct_actual

\* C10: an expense whose category is "Fuel" or "Gas" is in neither the
\* non-vehicle total nor the vehicle-operating total: the two totals together
\* are the in-range expenses of every other category, so the actual scenario
\* only has the fuel records' total_paid as its fuel cost.
C10_FuelCategoryExcluded ==
    IsReport =>
        LET r     == response.result
            other == {e \in RExpenses : expenses[e].category \notin {<< "Fuel" >>, << "Gas" >>}}
        IN  /\ r.vehicle_op_total + r.non_vehicle_exp_total =
                   SumOver(other, [e \in other |-> Amt(expenses[e].amount)])
            /\ r.total_deduct_actual =
                   SumOver(other, [e \in other |-> Amt(expenses[e].amount)])
                   + SumOver(RFuels, [f \in RFuels |-> Amt(fuels[f].total_paid)])

\* C10 witness: a report whose range holds a "Gas" and a "Fuel" expense next to
\* an expense of another category.
C10_Witness ==
    /\ IsReport
    /\ \E e, g, h \in RExpenses :
           /\ expenses[e].category = << "Gas" >> /\ Amt(expenses[e].amount) > 0
           /\ expenses[g].category = << "Fuel" >> /\ Amt(expenses[g].amount) > 0
           /\ expenses[h].category \notin {<< "Fuel" >>, << "Gas" >>}
    /\ "Gas" \in DOMAIN response.result.expenses_by_cat
    /\ "Fuel" \in DOMAIN response.result.expenses_by_cat
    /\ response.result.vehicle_op_total + response.result.non_vehicle_exp_total > 0

\* the in-range expenses of a vehicle-operating category
RVehicleExpenses ==
    {e \in RExpenses :
        expenses[e].category \in
            {<< "Oil Change" >>, << "Tires" >>, << "Maintenance" >>, << "Repairs" >>,
             << "Car Wash" >>}}

\* the in-range expenses of any other category, "Fuel" and "Gas" set aside
ROtherExpenses ==
    {e \in RExpenses \ RVehicleExpenses :
        expenses[e].category \notin {<< "Fuel" >>, << "Gas" >>}}

\* C11: an expense of category Oil Change, Tires, Maintenance, Repairs or Car
\* Wash counts in the vehicle expenses of the actual scenario and in no total
\* of the standard scenario; an expense of any other category but Fuel and Gas
\* counts in the non-vehicle total of both scenarios; each expense counts once
\* in a scenario's total.
C11_ExpenseClasses ==
    IsReport =>
        LET r   == response.result
            veh == SumOver(RVehicleExpenses,
                           [e \in RVehicleExpenses |-> Amt(expenses[e].amount)])
            oth == SumOver(ROtherExpenses,
                           [e \in ROtherExpenses |-> Amt(expenses[e].amount)])
            fl  == SumOver(RFuels, [f \in RFuels |-> Amt(fuels[f].total_paid)])
        IN  /\ r.vehicle_op_total = veh
            /\ r.actual_vehicle_expenses = veh + fl
            /\ r.non_vehicle_exp_total = oth
            /\ r.total_deduct_standard = r.std_mileage_deduction + oth
            /\ r.total_deduct_actual = veh + fl + oth

\* C11 witness: a report over two vehicle-operating expenses of different
\* categories, an expense without a category and one of another category.
C11_Witness ==
    /\ IsReport
    /\ \E e, g \in RVehicleExpenses :
           /\ expenses[e].category = << "Tires" >>
           /\ expenses[g].category = << "Car Wash" >>
    /\ \E e, g \in ROtherExpenses :
           /\ expenses[e].category = << "" >>
           /\ expenses[g].category = << "Phone" >>
    /\ response.result.vehicle_op_total = 55
    /\ response.result.non_vehicle_exp_total = 60

\* C12: the report range [start, end] is inclusive at day granularity for every
\* record kind: a trip, expense or fuel record counts iff start <= its calendar
\* date <= end, whatever its time of day, and a daily log counts iff
\* start <= its date <= end; a trip and a daily log of one driver and one date
\* are both in range or both out of range.
C12_InclusiveDayRange ==
    IsReport =>
        LET r == response.result
            d == response.driver_id
            s == response.start
            e == response.end
        IN  /\ ReportTrips(d, s, e) = RTrips
            /\ ReportExpenses(d, s, e) = RExpenses
            /\ ReportFuels(d, s, e) = RFuels
            /\ ReportDaily(d, s, e) = RDailies
            /\ r.gross = SumOver(RDailies, [x \in RDailies |-> Amt(dailies[x].total_earned)])
                         + SumOver(RKept, [x \in RKept |-> Fares(x)])
            /\ r.fuel_paid_total = SumOver(RFuels, [x \in RFuels |-> Amt(fuels[x].total_paid)])
            /\ SumOver(DOMAIN r.expenses_by_cat, r.expenses_by_cat)
                   = SumOver(RExpenses, [x \in RExpenses |-> Amt(expenses[x].amount)])
            /\ \A t \in DOMAIN trips, l \in DOMAIN dailies :
                   (trips[t].driver_id = dailies[l].driver_id /\ Day(trips[t]) = dailies[l].date)
                       => (t \in ReportTrips(d, s, e) <=> l \in ReportDaily(d, s, e))

\* C12 witness: a report over the single day 2 January that counts a trip and a
\* fuel record of that day's last instant and an expense of its first, and
\* leaves out a record of 1 January.
C12_Witness ==
    /\ IsReport
    /\ response.start = response.end
    /\ \E t \in RTrips : trips[t].date = << response.end, TimeMax >>
    /\ \E f \in RFuels : fuels[f].date = << response.end, TimeMax >>
    /\ \E x \in RExpenses : expenses[x].date = << response.start, 0 >>
    /\ DOMAIN expenses \ RExpenses # {}
    /\ response.result.gross > 0
    /\ response.result.fuel_paid_total > 0

\* the in-range daily logs whose ending odometer is below the starting one
RRollbacks == {d \in RDailies : Amt(dailies[d].odo_end) < Amt(dailies[d].odo_start)}

\* C13: the report's business miles are the sum over the in-range daily logs of
\* max(0, odo_end - odo_start) plus the miles of the kept trips: a daily log
\* whose ending odometer is below its starting odometer adds 0 miles, never a
\* negative amount, to business miles and to the miles of its year.
C13_ClampedMiles ==
    IsReport =>
        LET r    == response.result
            fwd  == RDailies \ RRollbacks
            trip == SumOver(RKept, [t \in RKept |-> Amt(trips[t].miles)])
        IN  /\ r.business_miles =
                   SumOver(fwd, [d \in fwd |->
                       Amt(dailies[d].odo_end) - Amt(dailies[d].odo_start)]) + trip
            /\ r.business_miles >= trip
            /\ r.std_mileage_deduction =
                   SumOver(fwd, [d \in fwd |->
                       (Amt(dailies[d].odo_end) - Amt(dailies[d].odo_start))
                       * RateOrMax(dailies[d].date \div 1000)])
                   + SumOver(RKept, [t \in RKept |->
                       Amt(trips[t].miles) * RateOrMax(Day(trips[t]) \div 1000)])

\* C13 witness: a report over a daily log with an odometer rollback, a daily
\* log with miles and a kept trip with miles.
C13_Witness ==
    /\ IsReport
    /\ RRollbacks # {}
    /\ RDailies \ RRollbacks # {}
    /\ \E t \in RKept : Amt(trips[t].miles) > 0
    /\ response.result.business_miles > 0

\* the in-range daily logs and the kept trips that carry platform label l
RDailiesOf(l) == {d \in RDailies : Label(dailies[d].platform) = l}

RKeptOf(l) == {t \in RKept : Label(trips[t].platform) = l}

\* C14: the report's platform-income mapping gives for each platform label the
\* sum of total_earned of the in-range daily logs and of fare + tip + bonus of
\* the kept trips with that label, a missing platform counted under
\* "(unspecified)"; a shadowed trip is under no label, and the values of the
\* mapping sum to the report's gross income.
C14_PlatformIncome ==
    IsReport =>
        LET pi == response.result.platform_income IN
        /\ DOMAIN pi = {Label(dailies[d].platform) : d \in RDailies}
                       \cup {Label(trips[t].platform) : t \in RKept}
        /\ \A l \in DOMAIN pi :
               pi[l] = SumOver(RDailiesOf(l),
                               [d \in RDailiesOf(l) |-> Amt(dailies[d].total_earned)])
                       + SumOver(RKeptOf(l), [t \in RKeptOf(l) |-> Fares(t)])
        /\ \A t \in RTrips \ RKept :
               Label(trips[t].platform) \in DOMAIN pi =>
                   RDailiesOf(Label(trips[t].platform))
                       \cup RKeptOf(Label(trips[t].platform)) # {}
        /\ "" \notin DOMAIN pi
        /\ SumOver(DOMAIN pi, pi) = response.result.gross

\* C14 witness: a report with income under "(unspecified)" and under a named
\* platform, and a shadowed trip whose platform is no key of the mapping.
C14_Witness ==
    /\ IsReport
    /\ "(unspecified)" \in DOMAIN response.result.platform_income
    /\ response.result.platform_income["(unspecified)"] > 0
    /\ "Uber" \in DOMAIN response.result.platform_income
    /\ \E t \in RTrips \ RKept :
           Label(trips[t].platform) \notin DOMAIN response.result.platform_income
    /\ response.result.gross > 0

(***************************************************************************)
(* Claims about the frame of the read operations                           *)
(***************************************************************************)
IsRead == response.kind \in {"report", "dashboard", "mpg"}

\* C15: computing a report, the dashboard or a vehicle's rolling MPG changes no
\* stored record: every step that returns one of them leaves the Driver,
\* Vehicle, Trip, DailyLog, Expense, Fuel and User rows as they were, so the
\* report computed again over the stored records is the report returned.
C15_ReadsChangeNothing ==
    /\ [][IsRead' => /\ users' = users /\ drivers' = drivers /\ vehicles' = vehicles
                     /\ trips' = trips /\ dailies' = dailies /\ expenses' = expenses
                     /\ fuels' = fuels]_vars
    /\ [](IsReport =>
             response.result =
                 ReportResult(response.driver_id, response.start, response.end))
    /\ [](response.kind = "mpg" =>
             response.weighted_avg = rolling_mpg_for_vehicle(response.vehicle_id).weighted_avg)

\* C15 witness: a report was computed over a store that holds a trip, a daily
\* log, an expense and a fuel record.
C15_Witness ==
    /\ IsReport
    /\ DOMAIN trips # {} /\ DOMAIN dailies # {}
    /\ DOMAIN expenses # {} /\ DOMAIN fuels # {}
    /\ response.result.gross > 0
    /\ response.result.fuel_paid_total > 0

(***************************************************************************)
(* Claims about vehicles                                                   *)
(***************************************************************************)
DefaultsOf(d) == {v \in DOMAIN vehicles : vehicles[v].driver_id = d /\ vehicles[v].is_default}

\* C16: after any sequence of vehicles_create, vehicles_edit and vehicles_delete
\* requests, by the admin or by a plain user, edits that move a vehicle to
\* another driver included, every driver has at most one vehicle with
\* is_default set.
C16_OneDefaultPerDriver ==
    \A d \in {vehicles[v].driver_id : v \in DOMAIN vehicles} \cup DOMAIN drivers :
        Cardinality(DefaultsOf(d)) <= 1

\* C16 witness: vehicle 2, the default of driver 1 at the start, was moved to
\* driver 2 as the default while driver 2 has other vehicles, one of them
\* created as a default before; driver 1 has a new default.
C16_Witness ==
    /\ 2 \in DOMAIN vehicles
    /\ vehicles[2].driver_id = 2 /\ vehicles[2].is_default
    /\ Cardinality({v \in DOMAIN vehicles : vehicles[v].driver_id = 2}) >= 3
    /\ DefaultsOf(1) # {}
    /\ 1 \notin DOMAIN vehicles

(***************************************************************************)
(* Claims about unmeasurable intervals                                     *)
(***************************************************************************)
IsMpg == response.kind = "mpg"

\* the intervals of the returned series (none when the vehicle has fewer than 2 fills)
Intervals == {i \in 1..Len(response.series) : response.series[i].miles # None}

Measured == {i \in Intervals : response.series[i].mpg # None}

SeriesMiles(I) == SumOver(I, [i \in I |-> response.series[i].miles[1]])

SeriesGallons(I) == SumOver(I, [i \in I |-> response.series[i].gallons[1]])

\* C17 as stated: an interval whose mpg is None adds 0 miles and 0 gallons to
\* the totals, i.e. the weighted average is the miles of the measured intervals
\* over their gallons.
C17_UnmeasuredAddNothing ==
    (IsMpg /\ response.weighted_avg # None) =>
        response.weighted_avg[1][1] * SeriesGallons(Measured)
            = SeriesMiles(Measured) * response.weighted_avg[1][2]

\* C17 amended: an interval whose mpg is None (its gallons are not greater than
\* 0) still adds its interval miles to the total miles and its gallons, 0 or
\* negative, to the total gallons: the weighted average is the miles of all
\* intervals over the gallons of all intervals, and a zero-gallon interval
\* adds 0 to the gallons.
C17_UnmeasuredAddMiles ==
    (IsMpg /\ Intervals # {}) =>
        /\ SeriesGallons(Intervals) > 0 <=> response.weighted_avg # None
        /\ response.weighted_avg # None =>
               response.weighted_avg[1][1]
                   * (SeriesGallons(Measured) + SeriesGallons(Intervals \ Measured))
               = (SeriesMiles(Measured) + SeriesMiles(Intervals \ Measured))
                   * response.weighted_avg[1][2]
        /\ \A i \in Intervals \ Measured : response.series[i].gallons[1] <= 0

\* C17 witness: an average was returned for a vehicle with a measured interval
\* and a zero-gallon interval that has miles.
C17_Witness ==
    /\ IsMpg
    /\ response.weighted_avg # None
    /\ Measured # {}
    /\ \E i \in Intervals \ Measured :
           response.series[i].gallons[1] = 0 /\ response.series[i].miles[1] > 0

\* C18: rolling_mpg_for_vehicle returns for every stored fuel rows, zero and
\* negative gallons included: an interval's mpg is None exactly when its gallons
\* are not greater than 0 (no quotient has a zero denominator), the weighted
\* average is None exactly when the vehicle has fewer than 2 fills or the total
\* of the interval gallons is not greater than 0, and a returned average is
\* never negative.
C18_NoDivisionByZero ==
    IsMpg =>
        LET v == response.vehicle_id
            a == response.weighted_avg
        IN  /\ Len(response.series) = IF Cardinality(VehicleFuels(v)) < 2
                                      THEN Cardinality(VehicleFuels(v))
                                      ELSE Cardinality(VehicleFuels(v)) - 1
            /\ \A i \in Intervals :
                   /\ response.series[i].mpg = None <=> response.series[i].gallons[1] <= 0
                   /\ response.series[i].mpg # None =>
                          /\ response.series[i].mpg[1][2] > 0
                          /\ response.series[i].mpg[1][1] >= 0
            /\ a = None <=> (Cardinality(VehicleFuels(v)) < 2 \/ TotalIntervalGallons(v) <= 0)
            /\ a # None => (a[1][2] > 0 /\ a[1][1] >= 0)

\* C18 witness: a vehicle whose fills give a zero-gallon interval and a
\* negative-gallon interval, the total of the gallons being negative.
C18_Witness ==
    /\ IsMpg
    /\ Cardinality(VehicleFuels(response.vehicle_id)) = 3
    /\ \E i, j \in Intervals :
           /\ response.series[i].gallons[1] = 0
           /\ response.series[j].gallons[1] < 0
    /\ TotalIntervalGallons(response.vehicle_id) < 0
    /\ response.weighted_avg = None

(***************************************************************************)
(* Claims about the dashboard                                              *)
(***************************************************************************)
IsDashboard == response.kind = "dashboard"

\* the trips of the visible drivers on a date that has a daily log of another
\* driver and none of their own driver
CrossDated ==
    {t \in DashKept :
        \E d \in DOMAIN dailies :
            dailies[d].driver_id # trips[t].driver_id /\ dailies[d].date = Day(trips[t])}

\* C19: shadowing is per driver: on the dashboard of an admin, who sees several
\* drivers, a daily log of one driver on a date excludes no trip of another
\* driver on that date: such a trip is in gross income and in miles.
C19_ShadowingPerDriver ==
    (IsDashboard /\ users[response.user].is_admin) =>
        LET rest == DashKept \ CrossDated IN
        /\ response.gross
               - SumOver(DashDailies, [d \in DashDailies |-> Amt(dailies[d].total_earned)])
               - SumOver(rest, [t \in rest |-> Fares(t)])
           = SumOver(CrossDated, [t \in CrossDated |-> Fares(t)])
        /\ response.miles
               - SumOver(DashDailies, [d \in DashDailies |-> LogMiles(d)])
               - SumOver(rest, [t \in rest |-> Amt(trips[t].miles)])
           = SumOver(CrossDated, [t \in CrossDated |-> Amt(trips[t].miles)])

\* C19 witness: the admin's dashboard over two drivers, with a trip of one
\* driver on the date of the other driver's daily log, and a trip shadowed by
\* its own driver's log.
C19_Witness ==
    /\ IsDashboard /\ users[response.user].is_admin
    /\ Cardinality(DashDrivers) >= 2
    /\ \E t \in CrossDated : Fares(t) > 0 /\ Amt(trips[t].miles) > 0
    /\ \E t \in DOMAIN trips : Shadowed(t)

\* the vehicles of the drivers the dashboard covers
DashVehicles == {v \in DOMAIN vehicles : vehicles[v].driver_id \in DashDrivers}

\* C20: the dashboard's overall average MPG is weighted by each fuel segment
\* across all vehicles of the visible drivers: it is the total of the interval
\* miles of those vehicles divided by the total of their interval gallons.
C20_SegmentWeightedOverall ==
    IsDashboard =>
        LET M == SumOver(DashVehicles, [v \in DashVehicles |-> TotalIntervalMiles(v)])
            G == SumOver(DashVehicles, [v \in DashVehicles |-> TotalIntervalGallons(v)])
        IN  /\ G > 0 => response.avg_mpg # None
            /\ response.avg_mpg # None =>
                   response.avg_mpg[1][1] * G = M * response.avg_mpg[1][2]


(***************************************************************************)
(* Claims about administration, sessions and access control               *)
(***************************************************************************)
\* the users and records that name driver d
Referring(d) ==
    [users    |-> {u \in DOMAIN users : users[u].driver_id = Some(d)},
     trips    |-> {t \in DOMAIN trips : trips[t].driver_id = d},
     dailies  |-> {l \in DOMAIN dailies : dailies[l].driver_id = d},
     expenses |-> {e \in DOMAIN expenses : expenses[e].driver_id = d},
     fuels    |-> {f \in DOMAIN fuels : fuels[f].driver_id = d}]

Unreferenced(d) ==
    \A k \in DOMAIN Referring(d) : Referring(d)[k] = {}

IsAdminClient(c) == get_current_user(c) # None /\ get_current_user(c)[1].is_admin

\* every driver a user or a record names is stored
NoDanglingDriver ==
    /\ \A u \in DOMAIN users :
           users[u].driver_id # None => users[u].driver_id[1] \in DOMAIN drivers
    /\ \A t \in DOMAIN trips : trips[t].driver_id \in DOMAIN drivers
    /\ \A l \in DOMAIN dailies : dailies[l].driver_id \in DOMAIN drivers
    /\ \A e \in DOMAIN expenses : expenses[e].driver_id \in DOMAIN drivers
    /\ \A f \in DOMAIN fuels : fuels[f].driver_id \in DOMAIN drivers

\* C21: a driver leaves the store only by a drivers_delete of an admin, and
\* only when no trip, daily log, expense, fill-up or user names it; a
\* drivers_delete of anyone else, of an unknown driver or of a driver that is
\* still named changes nothing in the store; and in every state each driver
\* named by a trip, daily log, expense, fill-up or user is stored.
C21_DriverDeleteGuarded ==
    /\ [][ /\ \A d \in DOMAIN drivers :
                  d \notin DOMAIN drivers' =>
                      /\ Unreferenced(d)
                      /\ \E c \in Clients : IsAdminClient(c) /\ drivers_delete(c, d)
           /\ \A c \in Clients, d \in AdminDriverIds :
                  ( /\ drivers_delete(c, d)
                    /\ ~(IsAdminClient(c) /\ d \in DOMAIN drivers /\ Unreferenced(d)) )
                      => UNCHANGED db ]_vars
    /\ []NoDanglingDriver

\* a driver has been deleted while a record of another driver is stored
C21_Witness ==
    /\ \E d \in 1..(nextId.drivers - 1) : d \notin DOMAIN drivers
    /\ AdminRows > 0
    /\ response = Redirect("/drivers/ui")


\* C27: in every state with at least one user, at least one user is an admin.
C27_AlwaysAnAdmin ==
    DOMAIN users # {} => \E u \in DOMAIN users : users[u].is_admin


\* C23: the daily logs, trips, expenses and fill-ups that a report returned to
\* a user who is not an admin is computed from all belong to that user's driver.
C23_ReportOwnDriverOnly ==
    (IsReport /\ ~users[response.user].is_admin) =>
        LET own == users[response.user].driver_id IN
        /\ \A d \in RDailies : Some(dailies[d].driver_id) = own
        /\ \A t \in RTrips : Some(trips[t].driver_id) = own
        /\ \A e \in RExpenses : Some(expenses[e].driver_id) = own
        /\ \A f \in RFuels : Some(fuels[f].driver_id) = own


\* table t' keeps every row of t that belongs to a driver other than D, and
\* every row of t' that belongs to a driver other than D was in t as it is
Isolated(t, tn, D) ==
    /\ \A r \in DOMAIN t : t[r].driver_id # D => (r \in DOMAIN tn /\ tn[r] = t[r])
    /\ \A r \in DOMAIN tn : tn[r].driver_id # D => (r \in DOMAIN t /\ t[r] = tn[r])

\* C22: a create, edit or delete request (daily logs, trips, expenses,
\* fill-ups, vehicles, drivers) of a user who is not an admin and is bound to
\* driver D leaves the rows of every other driver as they are and stores no
\* new or changed row with a driver_id other than D.
C22_WriteIsolation ==
    [][ \A c \in Clients :
            ( /\ get_current_user(c) # None
              /\ ~get_current_user(c)[1].is_admin
              /\ get_current_user(c)[1].driver_id # None
              /\ RecordWrites(c, AccessInputs) )
            => LET D == get_current_user(c)[1].driver_id[1] IN
               /\ Isolated(dailies, dailies', D)
               /\ Isolated(trips, trips', D)
               /\ Isolated(expenses, expenses', D)
               /\ Isolated(fuels, fuels', D)
               /\ Isolated(vehicles, vehicles', D)
               /\ \A d \in (DOMAIN drivers \cup DOMAIN drivers') \ {D} :
                      d \in DOMAIN drivers /\ d \in DOMAIN drivers'
                          /\ drivers'[d] = drivers[d] ]_vars


\* C25: every trip and every fill-up that names a vehicle names a stored
\* vehicle of the row's own driver, so that the fill-ups from which
\* rolling_mpg_for_vehicle computes a vehicle's MPG are its driver's.
C25_VehicleOfSameDriver ==
    /\ \A t \in DOMAIN trips :
           trips[t].vehicle_id # None =>
               /\ trips[t].vehicle_id[1] \in DOMAIN vehicles
               /\ vehicles[trips[t].vehicle_id[1]].driver_id = trips[t].driver_id
    /\ \A f \in DOMAIN fuels :
           fuels[f].vehicle_id # None =>
               /\ fuels[f].vehicle_id[1] \in DOMAIN vehicles
               /\ vehicles[fuels[f].vehicle_id[1]].driver_id = fuels[f].driver_id


\* the table whose rows a listing page shows
PageTable ==
    CASE response.page = "/daily/ui"    -> dailies
      [] response.page = "/trips/ui"    -> trips
      [] response.page = "/expenses/ui" -> expenses
      [] response.page = "/fuel/ui"     -> fuels
      [] response.page = "/vehicles/ui" -> vehicles

\* C24: each of the five listing pages shows a user who is not an admin only
\* rows whose driver_id is the user's driver_id, and no row at all when the
\* user has no driver.
C24_ListingOwnDriverOnly ==
    (response.kind = "list" /\ ~users[response.user].is_admin) =>
        \A r \in response.rows :
            Some(PageTable[r].driver_id) = users[response.user].driver_id


\* client c is authenticated in the store us with the sessions ss
Authenticated(c, ss, us) == ss[c] # None /\ ss[c][1] \in DOMAIN us

\* C26: a create, edit or delete request of a client whose session holds no
\* user_id, or the user_id of a user that is no longer stored, changes nothing
\* in the store and is answered with a redirect, never with a page; a
\* client that was not authenticated is authenticated after a
\* step only if the step is a login_do or a setup_do of that client; and
\* after a logout the client is not authenticated.
C26_LoginRequired ==
    [][ \A c \in Clients :
            /\ ( /\ ~Authenticated(c, sessions, users)
                 /\ (RecordWrites(c, SessionInputs) \/ UserWrites(c)) )
               => UNCHANGED db /\ response'.kind = "redirect"
            /\ ( /\ ~Authenticated(c, sessions, users)
                 /\ Authenticated(c, sessions', users') )
               => \/ \E in \in SessionLogins : login_do(c, in[1], in[2])
                  \/ setup_do(c, SetupForm("root", "pr", ""))
            /\ logout(c) => ~Authenticated(c, sessions', users') ]_vars

\* a browser whose user has been deleted asked for a write and was sent to
\* the login page, while another user is still stored
C26_Witness ==
    /\ \E c \in Clients : sessions[c] # None /\ sessions[c][1] \notin DOMAIN users
    /\ DOMAIN users # {}
    /\ response = Redirect("/login")


\* C28: first-time setup takes effect at most once: a setup_do request
\* creates its driver and its admin user only in a step that starts with no
\* user stored, so whichever part of a setup_do request runs while a user is
\* stored changes nothing, and of the requests that overlap at most one
\* creates an admin user.
C28_SetupOnce ==
    [][ \A c \in Clients :
            ( /\ DOMAIN users # {}
              /\ \/ \E form \in SetupForms : setup_do_check(c, form)
                 \/ setup_do_commit(c) )
            => UNCHANGED db ]_vars

====
